---- MODULE Spec2Model ----
(***************************************************************************)
(* The message dispatcher of the Mendix Studio Pro plugins.                *)
(*                                                                         *)
(* AppController.dispatch routes a request to an RPC, job or session       *)
(* handler; RPC and session handlers run on the calling (main) thread, a   *)
(* job handler runs on a daemon worker thread started by                   *)
(* _handle_job_start.  Everything the backend says goes through            *)
(* MendixMessageHub.send, modelled by the log `sent` of the envelopes       *)
(* post_message accepted; a call of post_message that raises leaves no     *)
(* entry and spends one of the transport's `faults`.                       *)
(*                                                                         *)
(* Two variants of the controller are modelled, chosen by `variant`:       *)
(*   "mock-task"  src/mock-task/main.py (the same code is in backjob,      *)
(*                api-md, log-extractor and reflect-extension), and        *)
(*   "microflow"  src/microflow/main.py, which adds telemetry spans and    *)
(*                has a different _handle_rpc, _handle_job_start and       *)
(*                except clause, and                                       *)
(*   "log-extractor"  src/log-extractor/main.py, the mock-task controller  *)
(*                without the two session methods.                         *)
(*                                                                         *)
(* The module also holds the traceability analyzer of                      *)
(* src/Mendix_Navigation_Visualizer/main.py: the cached graph with its     *)
(* lookup tables, and the queries the plugin's RPC methods run on it; and  *)
(* the route analysis of src/page route visualizer/main.py, which builds   *)
(* its graph by recursion over the menu items' targets.                    *)
(*                                                                         *)
(* Python values: a dict is a record whose missing keys hold Absent; the   *)
(* value None is the string None; an f-string is the tuple of its parts,   *)
(* so that "the message contains the method name" is a statement about     *)
(* the tuple; an envelope is a record of all envelope keys, the keys it    *)
(* does not carry holding Absent (strings) or <<>> (tuples).               *)
(***************************************************************************)
EXTENDS Integers, Sequences, FiniteSets, TLC

\* Number of requests the model dispatches in one run.
MaxDispatch == 2

\* Number of report() calls OrderManagementGenerator.execute makes between
\* the first and the last report of GenerateMicroflowJob.run.
GenReports == 1

\* Number of post_message calls that may raise in one run of the
\* specification with a faulty transport.
MaxFaults == 2

Absent == "<absent>"
None == "None"

Variants == {"mock-task", "microflow", "log-extractor"}

VARIABLES
    _full_graph_cache,  \* the analyzer's cached graph {nodes, edges}, None before the build
    _nodes_by_id,       \* the analyzer's index of node dicts by id
    _adj,               \* forward adjacency: id -> targets, in edge order
    _rev_adj,           \* reverse adjacency: id -> sources, in edge order
    query,              \* the last query of the analyzer and what it returned
    root,               \* the source model the analyzer reads (self._root)
    callers,            \* the threads calling the analyzer: position and build locals
    builds,             \* number of graph builds started so far
    _nodes,             \* GraphBuilder._nodes of the route analysis, in insertion order
    _edges,             \* GraphBuilder._edges of the route analysis, in insertion order
    _processed_elements, \* NavigationAnalyzer._processed_elements
    analysis,           \* NavigationAnalyzer.analyze: its position and the calls it is in
    variant,          \* which plugin's AppController runs
    main,             \* the calling thread: its position in dispatch and its locals
    threads,          \* the worker threads started so far, in start order
    sent,             \* every envelope post_message accepted, in order, with the sending thread
    faults,           \* number of post_message calls that may still raise
    active_sessions,  \* RealtimeLogSession._active_sessions
    ndispatch,        \* number of dispatch calls so far
    draws             \* number of uuid.uuid4() calls so far

\* The fields of MendixTraceabilityAnalyzer, the last query, the source
\* model and the threads in the analyzer.
traceability_vars ==
    <<_full_graph_cache, _nodes_by_id, _adj, _rev_adj, query, root, callers, builds>>

\* The fields of the route analysis' GraphBuilder and NavigationAnalyzer.
route_vars == <<_nodes, _edges, _processed_elements, analysis>>

\* The state of the two analyzers.
analyzer_vars == <<traceability_vars, route_vars>>

\* The state of AppController, its hub and its threads.
controller_vars == <<variant, main, threads, sent, faults, active_sessions, ndispatch, draws>>

vars == <<analyzer_vars, controller_vars>>

----------------------------------------------------------------------------
(* Python helpers *)

\* dict.get(key): None for a missing key.
Get(d, key) == IF d[key] = Absent THEN None ELSE d[key]

\* A truth test that takes None for true.
Truthy_unless_empty(v) == v \notin {Absent, ""}

\* Truth value of a str-or-None, as tested by `if req_id:`.
Truthy(v) == v \notin {None, Absent, ""}

\* f"{x}" of a str-or-None.
Fmt(v) == IF v = Absent THEN None ELSE v

KeyError(key) == [type |-> "KeyError", message |-> <<"'", key, "'">>]
\* A ValueError constructed without its message.
ValueError_bare(parts) == [type |-> "ValueError", message |-> <<>>]

ValueError(parts) == [type |-> "ValueError", message |-> parts]
AttributeError(obj, attr) ==
    [type |-> "AttributeError",
     message |-> <<"'", obj, "' object has no attribute '", attr, "'">>]
\* set.add and set.discard of a value that has no hash.
TypeError(type) == [type |-> "TypeError", message |-> <<"unhashable type: '", type, "'">>]
ZeroDivisionError == [type |-> "ZeroDivisionError", message |-> <<"division by zero">>]
RuntimeError(parts) == [type |-> "RuntimeError", message |-> parts]
NoException == [type |-> Absent, message |-> <<>>]

----------------------------------------------------------------------------
(* Requests *)

ReqIds == {Absent, "", "r1"}
Params == {Absent, "{}"}

RpcMethods == {"system:getInfo", "system:deliberateError", "system:triggerBroadcast",
               "nonexistent", Absent}
JobMethods == {"import:file", "microflow:generate", Absent}
Channels == {"logs:realtime", "nochannel"}

Request(type, method, channel, reqId, params, sessionId) ==
    [type |-> type, method |-> method, channel |-> channel, reqId |-> reqId,
     params |-> params, sessionId |-> sessionId]

\* The params key varies for the handlers that read it (TriggerBroadcastRpc,
\* FileImportJob); the other requests carry none.
ReadsParams == {"system:triggerBroadcast", "import:file"}

RpcRequests ==
    {Request("RPC", m, Absent, r, p, Absent) :
        m \in RpcMethods, r \in ReqIds, p \in Params}
JobRequests ==
    {Request("JOB_START", m, Absent, r, p, Absent) :
        m \in JobMethods, r \in ReqIds, p \in Params}
SessionRequests ==
    {Request(t, Absent, c, r, Absent, "s1") :
        t \in {"SESSION_CONNECT", "SESSION_DISCONNECT"}, c \in Channels, r \in ReqIds}
\* json.loads turns a sessionId written as a JSON array into a list.
ListId == "['s1']"
ListSessionRequests ==
    {Request(t, Absent, c, r, Absent, ListId) :
        t \in {"SESSION_CONNECT", "SESSION_DISCONNECT"}, c \in Channels, r \in ReqIds}
OtherRequests ==
    {Request(t, Absent, Absent, r, Absent, Absent) : t \in {"PING", Absent}, r \in ReqIds}

Requests ==
    {q \in RpcRequests \cup JobRequests : q.params # Absent => q.method \in ReadsParams}
    \cup SessionRequests \cup OtherRequests

NoRequest == Request(Absent, Absent, Absent, Absent, Absent, Absent)

----------------------------------------------------------------------------
(* Envelopes and the hub *)

Envelope(type, reqId, jobId, message, progress, data) ==
    [type |-> type, reqId |-> reqId, jobId |-> jobId, message |-> message,
     progress |-> progress, data |-> data, sessionId |-> Absent]

RPC_SUCCESS(reqId, data) == Envelope("RPC_SUCCESS", reqId, <<>>, <<>>, -1, data)
RPC_ERROR(reqId, message) == Envelope("RPC_ERROR", reqId, <<>>, message, -1, Absent)
JOB_STARTED(reqId, jobId) == Envelope("JOB_STARTED", reqId, jobId, <<>>, -1, Absent)
JOB_PROGRESS(jobId, percent) == Envelope("JOB_PROGRESS", Absent, jobId, <<>>, percent, Absent)
JOB_SUCCESS(jobId, data) == Envelope("JOB_SUCCESS", Absent, jobId, <<>>, -1, data)
JOB_ERROR(jobId, message) == Envelope("JOB_ERROR", Absent, jobId, message, -1, Absent)
EVENT_BROADCAST(data) == Envelope("EVENT_BROADCAST", Absent, <<>>, <<>>, -1, data)
EVENT_SESSION(sessionId, data) ==
    [Envelope("EVENT_SESSION", Absent, <<>>, <<>>, -1, data) EXCEPT !.sessionId = sessionId]

\* MendixMessageHub.send called by thread t (0 is the main thread), when
\* post_message accepts the envelope.
send(log, t, message) == Append(log, [thread |-> t, msg |-> message])

\* What a raising post_message (or json.dumps) throws; send has no try
\* block, so its caller receives it.
PostMessageError == [type |-> "Exception", message |-> <<"post_message failed">>]

\* The outcomes of the next call of post_message: it returns (FALSE) or,
\* while the transport has faults left, raises (TRUE).
PostMessageRaises == IF faults > 0 THEN {FALSE, TRUE} ELSE {FALSE}

\* One call of hub.send by thread t with the outcome `raised`.
hub_send(t, message, raised) ==
    IF raised
    THEN sent' = sent /\ faults' = faults - 1
    ELSE sent' = send(sent, t, message) /\ faults' = faults

----------------------------------------------------------------------------
(* Handler registries, built once by AppController.__init__ from the      *)
(* Container's provider lists.                                             *)

\* (The requests of this model name none of the log-extractor's handlers.)
RpcRegistry ==
    CASE variant = "mock-task" ->
           {"system:getInfo", "system:triggerBroadcast", "system:deliberateError"}
      [] variant = "log-extractor" ->
           {"app:getEnvironment", "logs:getVersion", "logs:getStudioProLogs",
            "logs:getGitLogs", "logs:getModulesInfo", "logs:getJarDependencies",
            "logs:getFrontendComponents", "logs:generateCompleteForumExport"}
      [] OTHER -> {}
JobRegistry ==
    CASE variant = "mock-task" -> {"import:file"}
      [] variant = "log-extractor" -> {"logs:extractAll"}
      [] OTHER -> {"microflow:generate"}
SessionRegistry == IF variant = "mock-task" THEN {"logs:realtime"} ELSE {}

\* dict.get on a registry: the handler (named by its command_type) or None.
Lookup(registry, key) == IF key \in registry THEN key ELSE None

----------------------------------------------------------------------------
(* The calling thread *)

Idle == main.pc \in {"idle", "returned", "raised"}

Main(pc, request) ==
    [pc |-> pc, request |-> request, exc |-> NoException, handler |-> None,
     result |-> Absent, job_id |-> <<>>, ncalls |-> 0, mark |-> Len(sent)]

\* An exception that leaves dispatch (no except clause catches it).
Raise_uncaught(m, e) == [m EXCEPT !.pc = "crashed", !.exc = e]

\* An exception raised inside the try block of dispatch.
Raise(m, e) == [m EXCEPT !.pc = "except", !.exc = e]

\* The branch of dispatch taken for a message type.
Route(msg_type) ==
    CASE msg_type = "RPC" -> "handle_rpc"
      [] msg_type = "JOB_START" -> "handle_job_start"
      [] msg_type = "SESSION_CONNECT" -> "handle_session_connect"
      [] msg_type = "SESSION_DISCONNECT" -> "handle_session_disconnect"
      [] OTHER -> "unknown"

\* AppController.dispatch, up to the call of the branch's method.
dispatch(request) ==
    /\ Idle
    /\ ndispatch < MaxDispatch
    /\ ndispatch' = ndispatch + 1
    /\ LET msg_type == Get(request, "type")
           branch == Route(msg_type)
           m == Main(branch, request)
       IN  main' =
             IF branch = "unknown"
             THEN Raise(m, ValueError(<<"Unknown message type: ", Fmt(msg_type)>>))
             ELSE IF variant # "mock-task"
                     /\ branch \in {"handle_session_connect", "handle_session_disconnect"}
             THEN \* these AppControllers define no session methods
                  Raise(m, AttributeError("AppController", "_" \o branch))
             ELSE m
    /\ UNCHANGED <<analyzer_vars, variant, threads, sent, faults, active_sessions, draws>>

\* AppController._handle_rpc up to the call of handler.execute.
handle_rpc ==
    /\ main.pc = "handle_rpc"
    /\ LET method == main.request.method
           handler == Lookup(RpcRegistry, method)
       IN  main' =
             IF method = Absent THEN Raise(main, KeyError("method"))
             ELSE IF variant # "microflow" /\ handler = None
             THEN Raise(main, ValueError(<<"No RPC handler for '", method, "'">>))
             ELSE IF handler = None
             THEN \* microflow: handler.execute on None, re-raised after span.end
                  Raise(main, AttributeError("NoneType", "execute"))
             ELSE [main EXCEPT !.pc = "execute", !.handler = handler]
    /\ UNCHANGED <<analyzer_vars, variant, threads, sent, faults, active_sessions, ndispatch, draws>>

\* handler.execute(request.get("params")) on the calling thread:
\* GetSystemInfoRpc, DeliberateErrorRpc, TriggerBroadcastRpc.
execute ==
    /\ main.pc = "execute"
    /\ LET payload == Get(main.request, "params")
           m == [main EXCEPT !.ncalls = @ + 1]
       IN  CASE main.handler = "system:getInfo" ->
                  /\ main' = [m EXCEPT !.pc = "rpc_success", !.result = "info"]
                  /\ UNCHANGED <<sent, faults>>
             [] main.handler = "system:deliberateError" ->
                  /\ main' = Raise(m, ZeroDivisionError)
                  /\ UNCHANGED <<sent, faults>>
             [] main.handler = "system:triggerBroadcast" ->
                  IF payload = None
                  THEN /\ main' = Raise(m, AttributeError("NoneType", "get"))
                       /\ UNCHANGED <<sent, faults>>
                  ELSE \E raised \in PostMessageRaises :
                       /\ hub_send(0, EVENT_BROADCAST("global:notifications"), raised)
                       /\ main' = IF raised
                                  THEN Raise(m, PostMessageError)
                                  ELSE [m EXCEPT !.pc = "rpc_success",
                                                 !.result = "Broadcast sent successfully."]
    /\ UNCHANGED <<analyzer_vars, variant, threads, active_sessions, ndispatch, draws>>

\* A last line of _handle_rpc that reads the reqId with request.get.
rpc_success_get ==
    /\ main.pc = "rpc_success"
    /\ \E raised \in PostMessageRaises :
         /\ hub_send(0, RPC_SUCCESS(Get(main.request, "reqId"), main.result), raised)
         /\ main' = IF raised
                    THEN Raise(main, PostMessageError)
                    ELSE [main EXCEPT !.pc = "returned"]
    /\ UNCHANGED <<analyzer_vars, variant, threads, active_sessions, ndispatch, draws>>

\* The last line of _handle_rpc: hub.send of RPC_SUCCESS with request["reqId"].
rpc_success ==
    /\ main.pc = "rpc_success"
    /\ IF main.request.reqId = Absent
       THEN /\ main' = Raise(main, KeyError("reqId"))
            /\ UNCHANGED <<sent, faults>>
       ELSE \E raised \in PostMessageRaises :
            /\ hub_send(0, RPC_SUCCESS(main.request.reqId, main.result), raised)
            /\ main' = IF raised
                       THEN Raise(main, PostMessageError)
                       ELSE [main EXCEPT !.pc = "returned"]
    /\ UNCHANGED <<analyzer_vars, variant, threads, active_sessions, ndispatch, draws>>

\* An except clause that only prints the traceback.
dispatch_except_silent ==
    /\ main.pc = "except"
    /\ main' = [main EXCEPT !.pc = "returned"]
    /\ UNCHANGED <<analyzer_vars, variant, threads, sent, faults, active_sessions, ndispatch, draws>>

\* An except clause that reports the exception whatever the reqId is.
dispatch_except_unconditional ==
    /\ main.pc = "except"
    /\ hub_send(0, RPC_ERROR(Get(main.request, "reqId"), main.exc.message), FALSE)
    /\ main' = [main EXCEPT !.pc = "returned"]
    /\ UNCHANGED <<analyzer_vars, variant, threads, active_sessions, ndispatch, draws>>

\* The except clause of dispatch.  An exception of its own hub.send leaves
\* dispatch and is caught (and printed) by onMessage.
dispatch_except ==
    /\ main.pc = "except"
    /\ LET req_id == Get(main.request, "reqId")
       IN  IF variant = "microflow" \/ Truthy(req_id)
           THEN \E raised \in PostMessageRaises :
                /\ hub_send(0, RPC_ERROR(req_id, main.exc.message), raised)
                /\ main' = IF raised
                           THEN [main EXCEPT !.pc = "raised", !.exc = PostMessageError]
                           ELSE [main EXCEPT !.pc = "returned"]
           ELSE /\ main' = [main EXCEPT !.pc = "returned"]
                /\ UNCHANGED <<sent, faults>>
    /\ UNCHANGED <<analyzer_vars, variant, threads, active_sessions, ndispatch, draws>>

\* An id source that hands out the value of the previous call again.
uuid4_repeating == IF draws > 0 THEN draws ELSE draws + 1

\* uuid.uuid4(): a value no earlier call returned (the n-th call yields n).
uuid4 == draws + 1

\* The Thread object of job_runner with what its closure holds (job_id,
\* handler, request); step counts the handler's report_progress calls that
\* returned, failed tells that one of them raised.
Thread(job_id, handler, request) ==
    [job_id |-> job_id, handler |-> handler, request |-> request,
     pc |-> "run", step |-> 0, failed |-> FALSE, outcome |-> "running"]

\* AppController._handle_job_start through thread.start().
handle_job_start ==
    /\ main.pc = "handle_job_start"
    /\ LET method == main.request.method
           handler == Lookup(JobRegistry, method)
           job_id == <<"job-", uuid4>>
       IN  IF method = Absent
           THEN /\ main' = Raise(main, KeyError("method"))
                /\ UNCHANGED <<threads, draws>>
           ELSE IF variant # "microflow" /\ handler = None
           THEN /\ main' = Raise(main, ValueError(<<"No Job handler for '", method, "'">>))
                /\ UNCHANGED <<threads, draws>>
           ELSE /\ draws' = draws + 1
                /\ threads' = Append(threads,
                                 Thread(job_id, handler, main.request))
                /\ main' = [main EXCEPT !.pc = "job_started", !.handler = handler,
                                        !.job_id = job_id]
    /\ UNCHANGED <<analyzer_vars, variant, sent, faults, active_sessions, ndispatch>>

\* A _handle_job_start that joins the thread before it sends JOB_STARTED.
job_started_after_join ==
    /\ main.pc = "job_started"
    /\ threads[Len(threads)].pc = "done"
    /\ IF main.request.reqId = Absent
       THEN /\ main' = Raise(main, KeyError("reqId"))
            /\ UNCHANGED <<sent, faults>>
       ELSE \E raised \in PostMessageRaises :
            /\ hub_send(0, JOB_STARTED(main.request.reqId, main.job_id), raised)
            /\ main' = IF raised
                       THEN Raise(main, PostMessageError)
                       ELSE [main EXCEPT !.pc = "returned"]
    /\ UNCHANGED <<analyzer_vars, variant, threads, active_sessions, ndispatch, draws>>

\* A last line of _handle_job_start that reads the reqId with request.get.
job_started_get ==
    /\ main.pc = "job_started"
    /\ \E raised \in PostMessageRaises :
         /\ hub_send(0, JOB_STARTED(Get(main.request, "reqId"), main.job_id), raised)
         /\ main' = IF raised
                    THEN Raise(main, PostMessageError)
                    ELSE [main EXCEPT !.pc = "returned"]
    /\ UNCHANGED <<analyzer_vars, variant, threads, active_sessions, ndispatch, draws>>

\* The last line of _handle_job_start, after thread.start(): hub.send of
\* JOB_STARTED with request["reqId"].
job_started ==
    /\ main.pc = "job_started"
    /\ IF main.request.reqId = Absent
       THEN /\ main' = Raise(main, KeyError("reqId"))
            /\ UNCHANGED <<sent, faults>>
       ELSE \E raised \in PostMessageRaises :
            /\ hub_send(0, JOB_STARTED(main.request.reqId, main.job_id), raised)
            /\ main' = IF raised
                       THEN Raise(main, PostMessageError)
                       ELSE [main EXCEPT !.pc = "returned"]
    /\ UNCHANGED <<analyzer_vars, variant, threads, active_sessions, ndispatch, draws>>

\* AppController._handle_session_connect with RealtimeLogSession.on_connect.
handle_session_connect ==
    /\ main.pc = "handle_session_connect"
    /\ LET channel == main.request.channel
           handler == Lookup(SessionRegistry, channel)
           session_id == main.request.sessionId
       IN  IF channel = Absent
           THEN /\ main' = Raise(main, KeyError("channel"))
                /\ UNCHANGED <<sent, faults, active_sessions>>
           ELSE IF handler = None
           THEN /\ main' = [main EXCEPT !.pc = "returned"]
                /\ UNCHANGED <<sent, faults, active_sessions>>
           ELSE IF session_id = Absent
           THEN /\ main' = Raise(main, KeyError("sessionId"))
                /\ UNCHANGED <<sent, faults, active_sessions>>
           ELSE IF session_id = ListId
           THEN \* self._active_sessions.add(session_id) raises
                /\ main' = Raise([main EXCEPT !.handler = handler, !.ncalls = @ + 1],
                                 TypeError("list"))
                /\ UNCHANGED <<sent, faults, active_sessions>>
           ELSE \E raised \in PostMessageRaises :
                LET m == [main EXCEPT !.handler = handler, !.ncalls = @ + 1]
                IN  /\ active_sessions' = active_sessions \cup {session_id}
                    /\ hub_send(0, EVENT_SESSION(session_id,
                                      "Log stream connected successfully."), raised)
                    /\ main' = IF raised
                               THEN Raise(m, PostMessageError)
                               ELSE [m EXCEPT !.pc = "returned"]
    /\ UNCHANGED <<analyzer_vars, variant, threads, ndispatch, draws>>

\* AppController._handle_session_disconnect with RealtimeLogSession.on_disconnect.
handle_session_disconnect ==
    /\ main.pc = "handle_session_disconnect"
    /\ LET channel == main.request.channel
           handler == Lookup(SessionRegistry, channel)
           session_id == main.request.sessionId
       IN  IF channel = Absent
           THEN /\ main' = Raise(main, KeyError("channel"))
                /\ UNCHANGED active_sessions
           ELSE IF handler = None
           THEN /\ main' = [main EXCEPT !.pc = "returned"]
                /\ UNCHANGED active_sessions
           ELSE IF session_id = Absent
           THEN /\ main' = Raise(main, KeyError("sessionId"))
                /\ UNCHANGED active_sessions
           ELSE IF session_id = ListId
           THEN \* self._active_sessions.discard(session_id) raises
                /\ main' = Raise([main EXCEPT !.handler = handler, !.ncalls = @ + 1],
                                 TypeError("list"))
                /\ UNCHANGED active_sessions
           ELSE /\ active_sessions' = active_sessions \ {session_id}
                /\ main' = [main EXCEPT !.pc = "returned", !.handler = handler,
                                        !.ncalls = @ + 1]
    /\ UNCHANGED <<analyzer_vars, variant, threads, sent, faults, ndispatch, draws>>

----------------------------------------------------------------------------
(* The worker threads *)

\* The percent arguments of FileImportJob.run's four report_progress calls.
FileImportPercents == <<0, 25, 60, 95>>

\* Number of report_progress calls of a run that returns.
Reports(handler) ==
    CASE handler = "import:file" -> Len(FileImportPercents)
      [] handler = "microflow:generate" -> GenReports + 2
      [] OTHER -> 0

\* The percent of the (step+1)-th report: FileImportJob's literals;
\* GenerateMicroflowJob's report() adds its increment, capped at 99.
Percent(handler, step) ==
    IF handler = "import:file" THEN FileImportPercents[step + 1]
    ELSE IF step + 1 = GenReports + 2 THEN 99
    ELSE 5 + 2 * step

\* The next statement of handler.run is a report_progress call.
Reporting(w) ==
    /\ w.pc = "run"
    /\ ~w.failed
    /\ w.step < Reports(w.handler)
    /\ w.handler = "import:file" => Get(w.request, "params") # None

\* The ways handler.run can end now: the value it returns or the exception
\* it raises.
\*   None (no such handler, microflow variant): handler.run fails on None;
\*   FileImportJob: payload.get fails on None before the first report, the
\*     run returns after the last;
\*   GenerateMicroflowJob: generator.execute() may raise after the first
\*     report, the run returns after the last;
\*   a report_progress call that raised ends FileImportJob.run with that
\*     exception and GenerateMicroflowJob.run, through its except clause,
\*     with a RuntimeError.
Endings(w) ==
    IF w.pc # "run" THEN {}
    ELSE IF w.failed
    THEN {[outcome |-> "raised",
           exc |-> IF w.handler = "microflow:generate"
                   THEN RuntimeError(<<"Job failed: ", "post_message failed">>)
                   ELSE PostMessageError,
           result |-> Absent]}
    ELSE CASE w.handler = None ->
                {[outcome |-> "raised", exc |-> AttributeError("NoneType", "run"),
                  result |-> Absent]}
           [] w.handler = "import:file" ->
                IF Get(w.request, "params") = None
                THEN {[outcome |-> "raised", exc |-> AttributeError("NoneType", "get"),
                       result |-> Absent]}
                ELSE IF w.step = Reports(w.handler)
                THEN {[outcome |-> "returned", exc |-> NoException,
                       result |-> "Completed"]}
                ELSE {}
           [] w.handler = "microflow:generate" ->
                IF w.step = Reports(w.handler)
                THEN {[outcome |-> "returned", exc |-> NoException, result |-> "Success"]}
                ELSE IF w.step >= 1
                THEN {[outcome |-> "raised", exc |-> RuntimeError(<<"Job failed: ", "...">>),
                       result |-> Absent]}
                ELSE {}
           [] OTHER -> {}

\* A report_progress that holds each envelope back until the next call.
report_progress_batched(t) ==
    /\ t \in DOMAIN threads
    /\ Reporting(threads[t])
    /\ LET w == threads[t]
       IN  /\ sent' = IF w.step = 0 THEN sent
                      ELSE send(sent, t, JOB_PROGRESS(w.job_id,
                                                      Percent(w.handler, w.step - 1)))
           /\ threads' = [threads EXCEPT ![t].step = @ + 1]
    /\ UNCHANGED <<analyzer_vars, variant, main, faults, active_sessions, ndispatch, draws>>

\* JobContext.report_progress called by the handler running on thread t.
report_progress(t) ==
    /\ t \in DOMAIN threads
    /\ Reporting(threads[t])
    /\ LET w == threads[t]
       IN  \E raised \in PostMessageRaises :
           /\ hub_send(t, JOB_PROGRESS(w.job_id, Percent(w.handler, w.step)), raised)
           /\ threads' = IF raised
                         THEN [threads EXCEPT ![t].failed = TRUE]
                         ELSE [threads EXCEPT ![t].step = @ + 1]
    /\ UNCHANGED <<analyzer_vars, variant, main, active_sessions, ndispatch, draws>>

\* A job_runner whose except clause also runs after JOB_SUCCESS was sent
\* (the terminal envelope is followed by a JOB_ERROR).
job_runner_double_terminal(t) ==
    /\ t \in DOMAIN threads
    /\ \E e \in Endings(threads[t]) :
         LET w == threads[t]
             first == send(sent, t,
                        IF e.outcome = "returned"
                        THEN JOB_SUCCESS(w.job_id, e.result)
                        ELSE JOB_ERROR(w.job_id, e.exc.message))
         IN  /\ sent' = IF e.outcome = "returned"
                        THEN send(first, t, JOB_ERROR(w.job_id, <<"late">>))
                        ELSE first
             /\ threads' = [threads EXCEPT ![t].pc = "done", ![t].outcome = e.outcome]
    /\ UNCHANGED <<analyzer_vars, variant, main, faults, active_sessions, ndispatch, draws>>

\* A job_runner without the try block: a raising handler ends the process,
\* and with it every other worker, before anything is sent.
job_runner_unguarded(t) ==
    /\ t \in DOMAIN threads
    /\ \E e \in Endings(threads[t]) :
         LET w == threads[t]
         IN  IF e.outcome = "returned"
             THEN /\ sent' = send(sent, t, JOB_SUCCESS(w.job_id, e.result))
                  /\ threads' = [threads EXCEPT ![t].pc = "done",
                                                ![t].outcome = e.outcome]
             ELSE /\ sent' = sent
                  /\ threads' = [u \in DOMAIN threads |->
                                    [threads[u] EXCEPT !.pc = "done", !.outcome = "raised"]]
    /\ UNCHANGED <<analyzer_vars, variant, main, faults, active_sessions, ndispatch, draws>>

\* job_runner on thread t once handler.run ends: JOB_SUCCESS with the result,
\* or the except clause's JOB_ERROR.  The send of JOB_SUCCESS is inside the
\* try block: if it raises, the except clause sends JOB_ERROR with its
\* message.  If the send of JOB_ERROR raises, the thread dies with nothing
\* sent.  `raises` is the number of post_message calls that raise.
job_runner(t) ==
    /\ t \in DOMAIN threads
    /\ \E e \in Endings(threads[t]) :
       \E raises \in 0..(IF e.outcome = "returned" THEN 2 ELSE 1) :
         LET w == threads[t]
             sends == IF e.outcome = "returned" THEN 2 ELSE 1
         IN  /\ raises <= faults
             /\ faults' = faults - raises
             /\ sent' =
                  IF raises = sends THEN sent
                  ELSE send(sent, t,
                         IF e.outcome = "raised"
                         THEN JOB_ERROR(w.job_id, e.exc.message)
                         ELSE IF raises = 0
                         THEN JOB_SUCCESS(w.job_id, e.result)
                         ELSE JOB_ERROR(w.job_id, PostMessageError.message))
             /\ threads' = [threads EXCEPT
                              ![t].pc = IF raises = sends THEN "died" ELSE "done",
                              ![t].outcome = e.outcome]
    /\ UNCHANGED <<analyzer_vars, variant, main, active_sessions, ndispatch, draws>>

----------------------------------------------------------------------------
(* The traceability analyzer (src/Mendix_Navigation_Visualizer/main.py)    *)

\* Longest edge list of a built graph.
MaxEdges == 4

\* Longest nodeIds list passed to find_common_upstream / find_common_downstream.
MaxIds == 2

\* Number of queries the model runs on one built graph.
MaxQueries == 1

\* The ids of the nodes of the built graphs, and one id no graph holds.
NodeIds == {"A", "B", "C", "D"}
QueryIds == NodeIds \cup {"X"}

\* A node dict; the queries read only its id.
Node(id) == [id |-> id]

Edge(source, target, type) == [source |-> source, target |-> target, type |-> type]

\* The edges the builds of this model record: the diamond A->B->D, A->C->D
\* with the shortcut A->D, the cycle B->D->B and a self-loop.
EdgeUniverse ==
    {Edge("A", "B", "SHOWS"), Edge("A", "C", "CALLS"), Edge("A", "D", "CALLS"),
     Edge("B", "D", "CALLS"), Edge("C", "D", "CALLS"), Edge("D", "B", "CALLS"),
     Edge("C", "C", "CALLS")}

\* The graphs a build can leave in the cache: list(nodes_map.values()), one
\* node per id, and edges_list, whose entries join node ids and may repeat.
BuiltGraphs ==
    {[nodes |-> <<Node("A"), Node("B"), Node("C"), Node("D")>>, edges |-> edges_list] :
        edges_list \in UNION {[1..n -> EdgeUniverse] : n \in 0..MaxEdges}}

\* set(a_list)
set(a_list) == {a_list[i] : i \in DOMAIN a_list}

\* list(a_set): the elements in some order.
RECURSIVE list(_)
list(a_set) ==
    IF a_set = {} THEN <<>>
    ELSE LET x == CHOOSE x \in a_set : TRUE
         IN  <<x>> \o list(a_set \ {x})

\* a_dict.get(key, default)
dict_get(a_dict, key, default) == IF key \in DOMAIN a_dict THEN a_dict[key] ELSE default

\* {node['id']: node for node in nodes}: a later node replaces an earlier
\* one with the same id.
NodesById(graph) ==
    [id \in {graph.nodes[i].id : i \in DOMAIN graph.nodes} |->
        graph.nodes[CHOOSE i \in DOMAIN graph.nodes :
                        /\ graph.nodes[i].id = id
                        /\ \A k \in DOMAIN graph.nodes : graph.nodes[k].id = id => k <= i]]

\* self._adj after the loop over edges_list: for every node id the targets
\* of its outgoing edges, in edge order.
Adjacency(graph) ==
    [id \in {graph.nodes[i].id : i \in DOMAIN graph.nodes} |->
        LET out == SelectSeq(graph.edges, LAMBDA edge : edge.source = id)
        IN  [k \in DOMAIN out |-> out[k].target]]

\* self._rev_adj after the loop over edges_list: for every node id the
\* sources of its incoming edges, in edge order.
ReverseAdjacency(graph) ==
    [id \in {graph.nodes[i].id : i \in DOMAIN graph.nodes} |->
        LET inc == SelectSeq(graph.edges, LAMBDA edge : edge.target = id)
        IN  [k \in DOMAIN inc |-> inc[k].source]]

\* A neighbour list that walks the edges against their direction.
neighbors_backward(adj_list, curr) == dict_get(_rev_adj, curr, <<>>)

\* A neighbour list that is read from its end.
neighbors_last_first(adj_list, curr) ==
    LET nbrs == dict_get(adj_list, curr, <<>>)
    IN  [k \in DOMAIN nbrs |-> nbrs[Len(nbrs) + 1 - k]]

\* adj_list.get(curr, []): the list the traversals iterate over.
neighbors(adj_list, curr) == dict_get(adj_list, curr, <<>>)

\* The for loop of find_paths over the neighbours of the dequeued node:
\* every neighbour not yet visited is marked and enqueued with its path.
RECURSIVE enqueue_neighbors(_, _, _, _)
enqueue_neighbors(nbrs, path, queue, visited) ==
    IF nbrs = <<>> THEN [queue |-> queue, visited |-> visited]
    ELSE LET neighbor == Head(nbrs)
         IN  IF neighbor \notin visited
             THEN enqueue_neighbors(Tail(nbrs), path,
                      Append(queue, [node |-> neighbor, path |-> Append(path, neighbor)]),
                      visited \cup {neighbor})
             ELSE enqueue_neighbors(Tail(nbrs), path, queue, visited)

\* The while loop of find_paths: the list holding the path of the first
\* dequeued entry that is end_node_id, or [] when the queue runs empty.
RECURSIVE bfs(_, _, _)
bfs(queue, visited, end_node_id) ==
    IF queue = <<>> THEN <<>>
    ELSE LET current_node == Head(queue).node
             path == Head(queue).path
         IN  IF current_node = end_node_id
             THEN LET known == SelectSeq(path, LAMBDA node_id :
                                                  node_id \in DOMAIN _nodes_by_id)
                  IN  << [k \in DOMAIN known |-> _nodes_by_id[known[k]]] >>
             ELSE LET loop == enqueue_neighbors(neighbors(_adj, current_node), path,
                                                Tail(queue), visited)
                  IN  bfs(loop.queue, loop.visited, end_node_id)

\* A find_paths that starts its search at the neighbours of the start
\* node: every path it finds has an edge.
find_paths_along_edges(start_node_id, end_node_id) ==
    IF start_node_id \notin DOMAIN _adj \/ end_node_id \notin DOMAIN _adj
    THEN <<>>
    ELSE LET loop == enqueue_neighbors(neighbors(_adj, start_node_id),
                                       <<start_node_id>>, <<>>, {})
         IN  bfs(loop.queue, loop.visited, end_node_id)

\* A find_paths without the membership test on its arguments.
find_paths_unguarded(start_node_id, end_node_id) ==
    bfs(<<[node |-> start_node_id, path |-> <<start_node_id>>]>>,
        {start_node_id}, end_node_id)

\* MendixTraceabilityAnalyzer.find_paths on the built graph.
find_paths(start_node_id, end_node_id) ==
    IF start_node_id \notin DOMAIN _adj \/ end_node_id \notin DOMAIN _adj
    THEN <<>>
    ELSE bfs(<<[node |-> start_node_id, path |-> <<start_node_id>>]>>,
             {start_node_id}, end_node_id)

\* The for loop of _traverse over the neighbours of curr.
RECURSIVE visit_neighbors(_, _, _)
visit_neighbors(nbrs, q, visited) ==
    IF nbrs = <<>> THEN [q |-> q, visited |-> visited]
    ELSE LET neighbor == Head(nbrs)
         IN  IF neighbor \notin visited
             THEN visit_neighbors(Tail(nbrs), Append(q, neighbor), visited \cup {neighbor})
             ELSE visit_neighbors(Tail(nbrs), q, visited)

\* The while loop of _traverse: the visited set once q is empty.
RECURSIVE visit(_, _, _)
visit(q, visited, adj_list) ==
    IF q = <<>> THEN visited
    ELSE LET loop == visit_neighbors(neighbors(adj_list, Head(q)), Tail(q), visited)
         IN  visit(loop.q, loop.visited, adj_list)

\* A _traverse that stops at the direct neighbours of its start nodes.
traverse_one_hop(start_nodes, forward) ==
    LET adj_list == IF forward THEN _adj ELSE _rev_adj
    IN  UNION {{start_nodes[i]} \cup set(neighbors(adj_list, start_nodes[i])) :
                  i \in DOMAIN start_nodes}

\* MendixTraceabilityAnalyzer._traverse
traverse(start_nodes, forward) ==
    LET adj_list == IF forward THEN _adj ELSE _rev_adj
    IN  UNION {visit(<<start_nodes[i]>>, {start_nodes[i]}, adj_list) :
                  i \in DOMAIN start_nodes}

\* set.intersection(*sets) of a non-empty list of sets
intersection(sets) == {x \in sets[1] : \A i \in DOMAIN sets : x \in sets[i]}

\* A get_subgraph that keeps every edge leaving a selected node.
get_subgraph_by_source(node_ids) ==
    LET node_id_set == set(node_ids)
    IN  [nodes |-> SelectSeq(_full_graph_cache.nodes,
                             LAMBDA node : node.id \in node_id_set),
         edges |-> SelectSeq(_full_graph_cache.edges,
                             LAMBDA edge : edge.source \in node_id_set)]

\* MendixTraceabilityAnalyzer.get_subgraph
get_subgraph(node_ids) ==
    LET node_id_set == set(node_ids)
    IN  [nodes |-> SelectSeq(_full_graph_cache.nodes,
                             LAMBDA node : node.id \in node_id_set),
         edges |-> SelectSeq(_full_graph_cache.edges,
                             LAMBDA edge : /\ edge.source \in node_id_set
                                           /\ edge.target \in node_id_set)]

\* {"nodes": [], "edges": []}
EmptyGraph == [nodes |-> <<>>, edges |-> <<>>]

\* A find_common_upstream that takes the ancestors of any selected node.
find_common_upstream_of_any(node_ids) ==
    IF node_ids = <<>> THEN EmptyGraph
    ELSE LET ancestor_sets == [i \in DOMAIN node_ids |-> traverse(<<node_ids[i]>>, FALSE)]
             common_ancestors_ids == UNION set(ancestor_sets) \ set(node_ids)
         IN  get_subgraph(list(common_ancestors_ids))

\* MendixTraceabilityAnalyzer.find_common_upstream
find_common_upstream(node_ids) ==
    IF node_ids = <<>> THEN EmptyGraph
    ELSE LET ancestor_sets == [i \in DOMAIN node_ids |-> traverse(<<node_ids[i]>>, FALSE)]
             common_ancestors_ids == intersection(ancestor_sets) \ set(node_ids)
         IN  get_subgraph(list(common_ancestors_ids))

\* A find_common_downstream that leaves the selected nodes in its result.
find_common_downstream_with_selected(node_ids) ==
    IF node_ids = <<>> THEN EmptyGraph
    ELSE LET descendant_sets == [i \in DOMAIN node_ids |-> traverse(<<node_ids[i]>>, TRUE)]
             common_descendants_ids == intersection(descendant_sets)
         IN  get_subgraph(list(common_descendants_ids))

\* MendixTraceabilityAnalyzer.find_common_downstream
find_common_downstream(node_ids) ==
    IF node_ids = <<>> THEN EmptyGraph
    ELSE LET descendant_sets == [i \in DOMAIN node_ids |-> traverse(<<node_ids[i]>>, TRUE)]
             common_descendants_ids == intersection(descendant_sets) \ set(node_ids)
         IN  get_subgraph(list(common_descendants_ids))

\* The nodeIds lists of the queries.
NodeIdLists == UNION {[1..n -> QueryIds] : n \in 0..MaxIds}

\* No query yet; n counts the queries answered.
NoQuery == [op |-> "none", args |-> <<>>, result |-> <<>>, n |-> 0]

\* self._full_graph_cache = None: a value that is no graph dict.
NoGraph == [graph |-> None]

\* A test of the cache that takes a graph without nodes for no graph.
Built_with_nodes == _full_graph_cache # NoGraph /\ _full_graph_cache.nodes # <<>>

\* _build_graph_if_needed finds the cache set and returns at once.
Built == _full_graph_cache # NoGraph

\* A query of the analyzer has returned `result`; no query writes a field
\* of the analyzer.
Returned(op, args, result) ==
    /\ query.n < MaxQueries
    /\ query' = [op |-> op, args |-> args, result |-> result, n |-> query.n + 1]
    /\ UNCHANGED <<_full_graph_cache, _nodes_by_id, _adj, _rev_adj, root, callers, builds,
                   controller_vars, route_vars>>

\* RPC method getTraceabilityGraph: RpcHandler.get_traceability_graph
getTraceabilityGraph ==
    /\ Built
    /\ Returned("get_full_graph", <<>>, _full_graph_cache)

\* RPC method findPaths: RpcHandler.find_paths
findPaths ==
    /\ Built
    /\ \E startNodeId, endNodeId \in QueryIds :
         Returned("find_paths", <<startNodeId, endNodeId>>,
                  find_paths(startNodeId, endNodeId))

\* RPC method findCommonUpstream: RpcHandler.find_common_upstream
findCommonUpstream ==
    /\ Built
    /\ \E nodeIds \in NodeIdLists :
         Returned("find_common_upstream", nodeIds, find_common_upstream(nodeIds))

\* RPC method findCommonDownstream: RpcHandler.find_common_downstream
findCommonDownstream ==
    /\ Built
    /\ \E nodeIds \in NodeIdLists :
         Returned("find_common_downstream", nodeIds, find_common_downstream(nodeIds))

\* RPC method getSubgraph: RpcHandler.get_subgraph, for the lists of every
\* set of ids and the lists that repeat an id.
getSubgraph ==
    /\ Built
    /\ \E nodeIds \in NodeIdLists \cup {list(S) : S \in SUBSET QueryIds} :
         Returned("get_subgraph", nodeIds, get_subgraph(nodeIds))

----------------------------------------------------------------------------
(* The graph build (_build_graph_if_needed) and the callers of the analyzer *)

\* Longest list of navigation profiles of a source model.
MaxProfiles == 2

\* Longest list of referencing elements of one unit of a source model.
MaxElements == 2

\* Number of queries a thread makes in sequence on one analyzer.
MaxCalls == 3

\* The threads that may call the analyzer.
Callers == {1, 2}

\* A navigation profile: its Name and the page of its homePage (None if unset).
Profile(Name, page) == [Name |-> Name, page |-> page]

\* A referencing element of a unit: a Pages$MicroflowSource, a
\* Microflows$MicroflowCall (type CALLS) or a Microflows$ShowPageAction
\* (type SHOWS), with the qualified name it holds (None if unset).
Element(target, type) == [target |-> target, type |-> type]

\* A page or microflow document with its referencing elements.
Unit(is_page, elements) == [is_page |-> is_page, elements |-> elements]

\* The profiles of the source models: a home page, no home page, and a home
\* page that is no document of the project.
ProfileUniverse ==
    {Profile("Web", "App.P"), Profile("Web", None), Profile("Phone", "App.Z")}

\* The elements the units of the source models may hold: page P calls
\* microflow M or nothing; M calls itself, calls Q, shows Q, shows P, calls
\* the missing App.Z, or calls nothing; Q calls M.
ElementUniverse(name) ==
    CASE name = "App.P" -> {Element("App.M", "CALLS"), Element(None, "CALLS")}
      [] name = "App.M" -> {Element("App.M", "CALLS"), Element("App.Q", "CALLS"),
                            Element("App.Q", "SHOWS"), Element("App.P", "SHOWS"),
                            Element("App.Z", "CALLS"), Element(None, "CALLS")}
      [] name = "App.Q" -> {Element("App.M", "CALLS")}

\* The lists of at most n entries over the set S.
Lists(S, n) == UNION {[1..k -> S] : k \in 0..n}

\* The source models (self._root) with at most p profiles and at most e
\* elements per unit: the page App.P and the microflows App.M and App.Q.
SourceModels(p, e) ==
    {[profiles |-> profiles,
      units |-> [name \in {"App.P", "App.M", "App.Q"} |->
                    Unit(name = "App.P",
                         CASE name = "App.P" -> elementsP
                           [] name = "App.M" -> elementsM
                           [] OTHER -> elementsQ)]] :
        profiles \in Lists(ProfileUniverse, p),
        elementsP \in Lists(ElementUniverse("App.P"), e),
        elementsM \in Lists(ElementUniverse("App.M"), e),
        elementsQ \in Lists(ElementUniverse("App.Q"), 1)}

\* page_lookup and microflow_lookup: the documents by qualified name, as
\* read from the source model (which no build sees change while it runs).
page_lookup ==
    [name \in {n \in DOMAIN root.units : root.units[n].is_page} |-> root.units[name]]

microflow_lookup ==
    [name \in {n \in DOMAIN root.units : ~root.units[n].is_page} |-> root.units[name]]

\* q_name.split('.')
split(q_name) ==
    CASE q_name = "App.P" -> <<"App", "P">>
      [] q_name = "App.M" -> <<"App", "M">>
      [] q_name = "App.Q" -> <<"App", "Q">>
      [] q_name = "App.Z" -> <<"App", "Z">>
      [] q_name = "Navigation.Web" -> <<"Navigation", "Web">>
      [] q_name = "Navigation.Phone" -> <<"Navigation", "Phone">>
      [] OTHER -> <<q_name>>

\* `q_name in nodes_map`: nodes_map is kept as the list of its values in
\* insertion order.
InNodesMap(nodes_map, q_name) == \E i \in DOMAIN nodes_map : nodes_map[i].id = q_name

\* The node dict _get_or_create_node builds for q_name.
new_node(q_name, type_override, name) ==
    LET parts == split(q_name)
        type == IF Truthy(type_override) THEN type_override
                ELSE IF q_name \in DOMAIN page_lookup THEN "PAGE"
                ELSE IF q_name \in DOMAIN microflow_lookup THEN "MICROFLOW"
                ELSE "UNKNOWN"
    IN  [id |-> q_name, type |-> type,
         name |-> IF Truthy(name) THEN name ELSE parts[Len(parts)],
         module |-> parts[1]]

\* A node insertion that makes nodes for the documents of the project and
\* for the ids given a type only.
get_or_create_node_of_documents(nodes_map, q_name, type_override, name) ==
    IF ~Truthy(q_name) \/ InNodesMap(nodes_map, q_name) THEN nodes_map
    ELSE IF ~Truthy(type_override) /\ q_name \notin DOMAIN root.units THEN nodes_map
    ELSE Append(nodes_map, new_node(q_name, type_override, name))

\* A node insertion that replaces the node an id already has.
get_or_create_node_overwriting(nodes_map, q_name, type_override, name) ==
    IF ~Truthy(q_name) THEN nodes_map
    ELSE IF InNodesMap(nodes_map, q_name)
    THEN [i \in DOMAIN nodes_map |->
            IF nodes_map[i].id = q_name
            THEN new_node(q_name, type_override, name)
            ELSE nodes_map[i]]
    ELSE Append(nodes_map, new_node(q_name, type_override, name))

\* _get_or_create_node(q_name, type_override, name) on nodes_map
get_or_create_node(nodes_map, q_name, type_override, name) ==
    IF ~Truthy(q_name) \/ InNodesMap(nodes_map, q_name) THEN nodes_map
    ELSE Append(nodes_map, new_node(q_name, type_override, name))

\* An _add_edge that keeps one edge per ordered pair of ids.
add_edge_per_pair(edges_list, source, target, type) ==
    IF Truthy(source) /\ Truthy(target)
       /\ ~\E i \in DOMAIN edges_list :
             edges_list[i].source = source /\ edges_list[i].target = target
    THEN Append(edges_list, Edge(source, target, type))
    ELSE edges_list

\* _add_edge(source, target, type) on edges_list
add_edge(edges_list, source, target, type) ==
    IF Truthy(source) /\ Truthy(target)
    THEN Append(edges_list, Edge(source, target, type))
    ELSE edges_list

\* The orders in which list(a_set) may hold the elements of a_set.
Orders(a_set) ==
    {s \in [1..Cardinality(a_set) -> a_set] : \A x \in a_set : \E i \in DOMAIN s : s[i] = x}

\* refs of _get_references_from_unit before list(set(refs)): a page appends
\* the microflow of every MicroflowSource, set or not; a microflow appends
\* only the names that are set.
refs_of(unit) ==
    LET kept == IF unit.is_page THEN unit.elements
                ELSE SelectSeq(unit.elements, LAMBDA el : Truthy(el.target))
    IN  [i \in DOMAIN kept |-> <<kept[i].target, kept[i].type>>]

\* A _get_references_from_unit that returns one reference of the set only.
get_references_from_unit_one(unit) ==
    LET refs == set(refs_of(unit))
    IN  IF refs = {} THEN {<<>>} ELSE {<<ref>> : ref \in refs}

\* _get_references_from_unit(unit, is_page): the lists list(set(refs)) may be.
get_references_from_unit(unit) == Orders(set(refs_of(unit)))

\* An attribute of the analyzer that no statement has assigned yet.
Unset == [attribute |-> Absent]

\* The queries the callers make: an RPC method with its arguments.
Query(op, args) == [op |-> op, args |-> args]

Queries ==
    {Query("get_full_graph", <<>>),
     Query("find_paths", <<"Navigation.Web", "App.M">>),
     Query("find_paths", <<"App.M", "App.P">>),
     Query("find_common_upstream", <<"App.M">>),
     Query("find_common_downstream", <<"App.P">>),
     Query("get_subgraph", <<"App.P", "App.M">>)}

\* A thread outside the analyzer that may still make `left` queries.
Outside(left) ==
    [pc |-> "idle", left |-> left, k |-> 1, nodes_map |-> <<>>, edges_list |-> <<>>,
     queue |-> <<>>, head |-> 0, processed_items |-> {}, exc |-> NoException]

\* Where the build goes on once the loop over the profiles has ended, and
\* once the while loop has ended.
AfterSeeding(c) ==
    IF c.k <= Len(root.profiles) THEN c
    ELSE [c EXCEPT !.pc = IF c.head < Len(c.queue) THEN "traversing" ELSE "cache"]

AfterExpansion(c) ==
    IF c.head < Len(c.queue) THEN c ELSE [c EXCEPT !.pc = "cache"]

\* An enqueue that lets pages into the queue only.
enqueue_pages(c, id) ==
    IF id \notin c.processed_items /\ id \in DOMAIN page_lookup
    THEN [c EXCEPT !.queue = Append(@, id), !.processed_items = @ \cup {id}]
    ELSE c

\* `if ref_id not in processed_items: queue.append(ref_id); processed_items.add(ref_id)`
enqueue(c, id) ==
    IF id \notin c.processed_items
    THEN [c EXCEPT !.queue = Append(@, id), !.processed_items = @ \cup {id}]
    ELSE c

\* The first statement of every query, _build_graph_if_needed: return at
\* once if the cache is set, else start the build with empty locals.
build_graph_if_needed(t) ==
    /\ callers[t].pc = "idle"
    /\ callers[t].left > 0
    /\ LET c == [Outside(callers[t].left - 1) EXCEPT !.pc = "seeding"]
       IN  IF Built
           THEN /\ callers' = [callers EXCEPT ![t] = [@ EXCEPT !.pc = "body", !.left = @ - 1,
                                                               !.exc = NoException]]
                /\ UNCHANGED builds
           ELSE /\ callers' = [callers EXCEPT ![t] = AfterSeeding(c)]
                /\ builds' = builds + 1
    /\ UNCHANGED <<_full_graph_cache, _nodes_by_id, _adj, _rev_adj, query, root, controller_vars, route_vars>>

\* One pass of the loop over the navigation profiles.
seed(t) ==
    /\ callers[t].pc = "seeding"
    /\ LET c == callers[t]
           profile == root.profiles[c.k]
           home_page_name == profile.page
           nav_id == "Navigation." \o profile.Name
           seeded ==
             IF Truthy(home_page_name)
             THEN enqueue(
                    [c EXCEPT
                       !.nodes_map =
                          get_or_create_node(
                             get_or_create_node(@, nav_id, "NAVIGATION_ITEM",
                                                "Home Page (" \o profile.Name \o ")"),
                             home_page_name, "PAGE", None),
                       !.edges_list = add_edge(@, nav_id, home_page_name, "SHOWS")],
                    home_page_name)
             ELSE c
       IN  callers' = [callers EXCEPT ![t] = AfterSeeding([seeded EXCEPT !.k = @ + 1])]
    /\ UNCHANGED <<_full_graph_cache, _nodes_by_id, _adj, _rev_adj, query, root, builds,
                   controller_vars, route_vars>>

\* The for loop over the references of the unit current_id.
RECURSIVE process_references(_, _, _)
process_references(c, current_id, references) ==
    IF references = <<>> THEN c
    ELSE LET ref_id == Head(references)[1]
             edge_type == Head(references)[2]
             next == IF Truthy(ref_id)
                     THEN enqueue(
                            [c EXCEPT
                               !.nodes_map = get_or_create_node(@, ref_id, None, None),
                               !.edges_list = add_edge(@, current_id, ref_id, edge_type)],
                            ref_id)
                     ELSE c
         IN  process_references(next, current_id, Tail(references))

\* One pass of the while loop: the next id of the queue is expanded unless
\* it names no page and no microflow.
expand(t) ==
    /\ callers[t].pc = "traversing"
    /\ LET c == [callers[t] EXCEPT !.head = @ + 1]
           current_id == c.queue[c.head]
       IN  IF current_id \notin DOMAIN root.units
           THEN callers' = [callers EXCEPT ![t] = AfterExpansion(c)]
           ELSE \E references \in get_references_from_unit(root.units[current_id]) :
                  callers' = [callers EXCEPT ![t] =
                     AfterExpansion(process_references(c, current_id, references))]
    /\ UNCHANGED <<_full_graph_cache, _nodes_by_id, _adj, _rev_adj, query, root, builds,
                   controller_vars, route_vars>>

\* self._full_graph_cache = {"nodes": list(nodes_map.values()), "edges": edges_list}
store_cache(t) ==
    /\ callers[t].pc = "cache"
    /\ _full_graph_cache' = [nodes |-> callers[t].nodes_map, edges |-> callers[t].edges_list]
    /\ callers' = [callers EXCEPT ![t].pc = "nodes_by_id"]
    /\ UNCHANGED <<_nodes_by_id, _adj, _rev_adj, query, root, builds, controller_vars, route_vars>>

\* self._nodes_by_id = {node['id']: node for node in self._full_graph_cache['nodes']}
store_nodes_by_id(t) ==
    /\ callers[t].pc = "nodes_by_id"
    /\ _nodes_by_id' = NodesById(_full_graph_cache)
    /\ callers' = [callers EXCEPT ![t].pc = "adj"]
    /\ UNCHANGED <<_full_graph_cache, _adj, _rev_adj, query, root, builds, controller_vars, route_vars>>

\* An adjacency table with keys only for the sources of edges.
EmptyLists_of_sources(graph) ==
    [id \in {graph.edges[i].source : i \in DOMAIN graph.edges} |-> <<>>]

\* {node['id']: [] for node in self._full_graph_cache['nodes']}
EmptyLists(graph) == [id \in {graph.nodes[i].id : i \in DOMAIN graph.nodes} |-> <<>>]

\* self._adj = {...}
store_adj(t) ==
    /\ callers[t].pc = "adj"
    /\ _adj' = EmptyLists(_full_graph_cache)
    /\ callers' = [callers EXCEPT ![t].pc = "rev_adj"]
    /\ UNCHANGED <<_full_graph_cache, _nodes_by_id, _rev_adj, query, root, builds, controller_vars, route_vars>>

\* self._rev_adj = {...}
store_rev_adj(t) ==
    /\ callers[t].pc = "rev_adj"
    /\ _rev_adj' = EmptyLists(_full_graph_cache)
    /\ callers' = [callers EXCEPT ![t].pc = "fill"]
    /\ UNCHANGED <<_full_graph_cache, _nodes_by_id, _adj, query, root, builds, controller_vars, route_vars>>

\* The loop `for edge in edges_list` on the tables self._adj and
\* self._rev_adj as they are now.
RECURSIVE append_edges(_, _)
append_edges(tables, edges_list) ==
    IF edges_list = <<>> THEN tables
    ELSE LET edge == Head(edges_list)
             adj == IF edge.source \in DOMAIN tables.adj
                    THEN [tables.adj EXCEPT ![edge.source] = Append(@, edge.target)]
                    ELSE tables.adj
             rev_adj == IF edge.target \in DOMAIN tables.rev_adj
                        THEN [tables.rev_adj EXCEPT ![edge.target] = Append(@, edge.source)]
                        ELSE tables.rev_adj
         IN  append_edges([adj |-> adj, rev_adj |-> rev_adj], Tail(edges_list))

\* A loop over the edges that fills the forward table only.
fill_adjacency_forward(t) ==
    /\ callers[t].pc = "fill"
    /\ _adj' = append_edges([adj |-> _adj, rev_adj |-> _rev_adj], callers[t].edges_list).adj
    /\ callers' = [callers EXCEPT ![t].pc = "body"]
    /\ UNCHANGED <<_full_graph_cache, _nodes_by_id, _rev_adj, query, root, builds,
                   controller_vars, route_vars>>

fill_adjacency(t) ==
    /\ callers[t].pc = "fill"
    /\ LET tables == append_edges([adj |-> _adj, rev_adj |-> _rev_adj], callers[t].edges_list)
       IN  /\ _adj' = tables.adj
           /\ _rev_adj' = tables.rev_adj
    /\ callers' = [callers EXCEPT ![t].pc = "body"]
    /\ UNCHANGED <<_full_graph_cache, _nodes_by_id, query, root, builds, controller_vars, route_vars>>

\* The attribute a query reads that is not assigned yet, if any.
MissingAttribute(op) ==
    CASE op \in {"find_paths", "find_common_downstream"} /\ _adj = Unset -> "_adj"
      [] op = "find_common_upstream" /\ _rev_adj = Unset -> "_rev_adj"
      [] OTHER -> None

\* What the body of a query method returns on the analyzer as it is now.
Answer(q) ==
    CASE q.op = "get_full_graph" -> _full_graph_cache
      [] q.op = "find_paths" -> find_paths(q.args[1], q.args[2])
      [] q.op = "find_common_upstream" -> find_common_upstream(q.args)
      [] q.op = "find_common_downstream" -> find_common_downstream(q.args)
      [] q.op = "get_subgraph" -> get_subgraph(q.args)

\* A query body whose traversal takes the neighbours off the forward lists.
body_consuming(t) ==
    /\ callers[t].pc = "body"
    /\ _adj # Unset
    /\ \E q \in Queries :
         /\ callers' = [callers EXCEPT ![t] = [@ EXCEPT !.pc = "idle"]]
         /\ query' = [op |-> q.op, args |-> q.args, result |-> Answer(q), n |-> query.n + 1]
         /\ _adj' = [id \in DOMAIN _adj |-> <<>>]
    /\ UNCHANGED <<_full_graph_cache, _nodes_by_id, _rev_adj, root, builds, controller_vars,
                   route_vars>>

\* The body of a query method, after _build_graph_if_needed has returned.
\* Which method was called shows only here.
body(t) ==
    /\ callers[t].pc = "body"
    /\ \E q \in Queries :
         LET missing == MissingAttribute(q.op)
         IN  IF missing # None
             THEN /\ callers' = [callers EXCEPT ![t] =
                        [@ EXCEPT !.pc = "idle",
                                  !.exc = AttributeError("MendixTraceabilityAnalyzer", missing)]]
                  /\ query' = [op |-> q.op, args |-> q.args, result |-> NoGraph,
                               n |-> query.n + 1]
             ELSE /\ callers' = [callers EXCEPT ![t] = [@ EXCEPT !.pc = "idle"]]
                  /\ query' = [op |-> q.op, args |-> q.args, result |-> Answer(q),
                               n |-> query.n + 1]
    /\ UNCHANGED <<_full_graph_cache, _nodes_by_id, _adj, _rev_adj, root, builds, controller_vars, route_vars>>

\* The project is edited while no query runs: the navigation loses its
\* profiles, or gains one.
edit ==
    /\ \A t \in Callers : callers[t].pc = "idle"
    /\ \E profiles \in {<<>>, Append(root.profiles, Profile("Phone", "App.Z"))} :
         /\ profiles # root.profiles
         /\ Len(profiles) <= MaxProfiles
         /\ root' = [root EXCEPT !.profiles = profiles]
    /\ UNCHANGED <<_full_graph_cache, _nodes_by_id, _adj, _rev_adj, query, callers, builds,
                   controller_vars, route_vars>>

----------------------------------------------------------------------------
(* The route analysis (src/page route visualizer/main.py): GraphBuilder and *)
(* NavigationAnalyzer                                                       *)

\* Longest list of menu items of the navigation profile.
MaxItems == 2

\* A menu item: str(item.ID) and the qualified name its action holds (None
\* if the item has no action or the action names nothing).
Item(ID, target) == [ID |-> ID, target |-> target]

\* The menu items of the source models: to page P, to microflow M, to nothing.
ItemUniverse(k) ==
    {Item("Item" \o ToString(k), target) : target \in {"App.P", "App.M", None}}

\* The client actions and microflow activities the units may hold (type
\* CALLS: Pages$MicroflowClientAction, Microflows$MicroflowCall; type SHOWS:
\* Pages$PageClientAction, Microflows$ShowPageAction): page P calls M, shows
\* itself, or names nothing; M calls itself, calls Q, names Q in a show-page
\* activity, shows P, calls the missing App.Z, or names nothing; Q calls M.
ActionUniverse(name) ==
    CASE name = "App.P" -> {Element("App.M", "CALLS"), Element("App.P", "SHOWS"),
                            Element(None, "CALLS")}
      [] name = "App.M" -> {Element("App.M", "CALLS"), Element("App.Q", "CALLS"),
                            Element("App.Q", "SHOWS"), Element("App.P", "SHOWS"),
                            Element("App.Z", "CALLS"), Element(None, "CALLS")}
      [] name = "App.Q" -> {Element("App.M", "CALLS")}

\* The source models of the route analysis: one navigation document whose
\* first profile has at most n menu items (without child items), the page
\* App.P and the microflows App.M and App.Q with at most e actions each, no
\* project security and no allowed roles.  str(unit.ID) is written as the
\* unit's qualified name.
RouteModels(n, e) ==
    {[profiles |-> <<>>,
      items |-> items,
      units |-> [name \in {"App.P", "App.M", "App.Q"} |->
                    Unit(name = "App.P",
                         CASE name = "App.P" -> elementsP
                           [] name = "App.M" -> elementsM
                           [] OTHER -> elementsQ)]] :
        items \in {s \in Lists(UNION {ItemUniverse(k) : k \in 1..n}, n) :
                      \A i \in DOMAIN s : s[i] \in ItemUniverse(i)},
        elementsP \in Lists(ActionUniverse("App.P"), e),
        elementsM \in Lists(ActionUniverse("App.M"), e),
        elementsQ \in Lists(ActionUniverse("App.Q"), 1)}

\* MendixModelService.find_element_by_qualified_name(qn): the page or
\* microflow of that name, None if there is none.
find_element_by_qualified_name(qn) == IF qn \in DOMAIN root.units THEN qn ELSE None

\* target_element.Type.split('$')[-1].lower()
target_type_group(id) == IF root.units[id].is_page THEN "page" ELSE "microflow"

\* GraphBuilder.add_node on the dict nodes, kept as the list of its values in
\* insertion order.
GraphBuilder_add_node(nodes, node_id, label, group, title) ==
    IF \E i \in DOMAIN nodes : nodes[i].id = node_id THEN nodes
    ELSE Append(nodes, [id |-> node_id, label |-> label, group |-> group,
                        title |-> IF Truthy(title) THEN title ELSE label])

\* GraphBuilder.add_edge on the dict edges, kept as the list of its values in
\* insertion order.
GraphBuilder_add_edge(edges, from_id, to_id, label) ==
    LET edge_id == from_id \o "->" \o to_id
    IN  IF \E i \in DOMAIN edges : edges[i].id = edge_id THEN edges
        ELSE Append(edges, [id |-> edge_id, from |-> from_id, to |-> to_id,
                            arrows |-> "to", label |-> label])

\* The actions the two _process_element_actions calls of a processor walk
\* through on a unit, in order: find_descendants_by_type finds the client
\* actions of a page and the activities of a microflow only.
actions_of(id, processor) ==
    LET unit == root.units[id]
        of_type(type) == SelectSeq(unit.elements, LAMBDA el : el.type = type)
    IN  IF unit.is_page = (processor = "_process_page")
        THEN of_type("CALLS") \o of_type("SHOWS")
        ELSE <<>>

\* The processor _process_element_actions is given for an action type.
processor_func(type) == IF type = "CALLS" THEN "_process_microflow" ELSE "_process_page"

\* No analysis has run.
NoAnalysis ==
    /\ _nodes = <<>>
    /\ _edges = <<>>
    /\ _processed_elements = {}
    /\ analysis = [pc |-> "idle", k |-> 1, stack |-> <<>>, exc |-> NoException]

\* _process_page / _process_microflow called on the unit id, the analysis
\* going on as `a` when the call returns: nothing if the unit is processed
\* already, else it is marked and its actions are walked.  A processor
\* given a unit of the other kind reads a property the unit may not have
\* (allowedRoles of a microflow, allowedModuleRoles of a page): the host
\* then hands back None, and .Value raises, or an empty list.
called(a, id, processor) ==
    IF id \in _processed_elements
    THEN /\ analysis' = a
         /\ UNCHANGED _processed_elements
    ELSE /\ _processed_elements' = _processed_elements \cup {id}
         /\ \/ analysis' = [a EXCEPT !.stack =
                  <<[element_id |-> id, actions |-> actions_of(id, processor)]>> \o @]
            \/ /\ root.units[id].is_page # (processor = "_process_page")
               /\ analysis' = [a EXCEPT !.pc = "raised", !.stack = <<>>,
                                        !.exc = AttributeError("NoneType", "Value")]

\* NavigationAnalyzer.analyze up to the loop over the menu items: a fresh
\* builder, no processed element, and the node of the navigation profile.
analyze ==
    /\ analysis.pc = "idle"
    /\ _nodes' = GraphBuilder_add_node(<<>>, "Profile", "Navigation Profile", "navigation", None)
    /\ _edges' = <<>>
    /\ _processed_elements' = {}
    /\ analysis' = [analysis EXCEPT !.pc = "items", !.k = 1]
    /\ UNCHANGED <<traceability_vars, controller_vars>>

\* _process_menu_item(item, profile_id) up to the call of the processor of
\* its target.
process_menu_item ==
    /\ analysis.pc = "items"
    /\ analysis.stack = <<>>
    /\ analysis.k <= Len(root.items)
    /\ LET item == root.items[analysis.k]
           item_id == item.ID
           target_id == IF Truthy(item.target)
                        THEN find_element_by_qualified_name(item.target) ELSE None
           nodes == GraphBuilder_add_node(_nodes, item_id, item_id, "menu", None)
           edges == GraphBuilder_add_edge(_edges, "Profile", item_id, "")
           a == [analysis EXCEPT !.k = @ + 1]
       IN  IF Truthy(target_id)
           THEN /\ _nodes' = GraphBuilder_add_node(nodes, target_id, target_id,
                                                    target_type_group(target_id), None)
                /\ _edges' = GraphBuilder_add_edge(edges, item_id, target_id, "")
                /\ called(a, target_id,
                          IF root.units[target_id].is_page THEN "_process_page"
                          ELSE "_process_microflow")
           ELSE /\ _nodes' = nodes
                /\ _edges' = edges
                /\ analysis' = a
                /\ UNCHANGED _processed_elements
    /\ UNCHANGED <<traceability_vars, controller_vars>>

\* One pass of the loop of _process_element_actions in the innermost call:
\* the next action of the unit that is being expanded.
process_element_actions ==
    /\ analysis.pc = "items"
    /\ analysis.stack # <<>>
    /\ Head(analysis.stack).actions # <<>>
    /\ LET frame == Head(analysis.stack)
           element_id == frame.element_id
           action == Head(frame.actions)
           qn == action.target
           target_id == IF Truthy(qn) THEN find_element_by_qualified_name(qn) ELSE None
           a == [analysis EXCEPT !.stack =
                    <<[frame EXCEPT !.actions = Tail(@)]>> \o Tail(@)]
       IN  IF Truthy(target_id) /\ target_id # element_id
           THEN /\ _nodes' = GraphBuilder_add_node(_nodes, target_id, qn,
                                                    target_type_group(target_id), None)
                /\ _edges' = GraphBuilder_add_edge(_edges, element_id, target_id, "")
                /\ called(a, target_id, processor_func(action.type))
           ELSE /\ analysis' = a
                /\ UNCHANGED <<_nodes, _edges, _processed_elements>>
    /\ UNCHANGED <<traceability_vars, controller_vars>>

\* The innermost _process_page / _process_microflow call returns.
processed ==
    /\ analysis.pc = "items"
    /\ analysis.stack # <<>>
    /\ Head(analysis.stack).actions = <<>>
    /\ analysis' = [analysis EXCEPT !.stack = Tail(@)]
    /\ UNCHANGED <<_nodes, _edges, _processed_elements, traceability_vars, controller_vars>>

\* The loop over the menu items has ended: analyze returns get_graph_data().
get_graph_data ==
    /\ analysis.pc = "items"
    /\ analysis.stack = <<>>
    /\ analysis.k > Len(root.items)
    /\ analysis' = [analysis EXCEPT !.pc = "done"]
    /\ UNCHANGED <<_nodes, _edges, _processed_elements, traceability_vars, controller_vars>>

----------------------------------------------------------------------------
(* The system *)

\* No request has been dispatched and no thread started.
NoDispatch ==
    /\ main = [pc |-> "idle", request |-> NoRequest, exc |-> NoException,
               handler |-> None, result |-> Absent, job_id |-> <<>>, ncalls |-> 0,
               mark |-> 0]
    /\ threads = <<>>
    /\ sent = <<>>
    /\ active_sessions = {}
    /\ ndispatch = 0
    /\ draws = 0

\* MendixTraceabilityAnalyzer.__init__: nothing cached, the lookup tables
\* not yet attributes of the analyzer, and no build started.
NotBuilt ==
    /\ _full_graph_cache = NoGraph
    /\ _nodes_by_id = Unset
    /\ _adj = Unset
    /\ _rev_adj = Unset
    /\ query = NoQuery
    /\ builds = 0

\* No source model, and no thread that calls the analyzer.
NoRoot == [profiles |-> <<>>, units |-> <<>>]
NoCallers ==
    /\ root = NoRoot
    /\ callers = [t \in Callers |-> Outside(0)]

InitOf(variants, budgets) ==
    /\ variant \in variants
    /\ faults \in budgets
    /\ NotBuilt
    /\ NoCallers
    /\ NoAnalysis
    /\ NoDispatch

Next ==
    \/ \E request \in Requests : dispatch(request)
    \/ handle_rpc
    \/ execute
    \/ rpc_success
    \/ handle_job_start
    \/ job_started
    \/ handle_session_connect
    \/ handle_session_disconnect
    \/ dispatch_except
    \/ \E t \in 1..MaxDispatch : report_progress(t)
    \/ \E t \in 1..MaxDispatch : job_runner(t)

\* The dispatcher of src/mock-task/main.py.
Init == InitOf({"mock-task"}, {0})
Spec == Init /\ [][Next]_vars

\* A step of the calling thread inside dispatch.
MainStep ==
    \/ handle_rpc \/ execute \/ rpc_success \/ handle_job_start \/ job_started
    \/ handle_session_connect \/ handle_session_disconnect \/ dispatch_except

\* Either plugin's dispatcher.
InitVariants == InitOf(Variants, {0})
VariantSpec == InitVariants /\ [][Next]_vars

\* Every started thread is scheduled: the calling thread runs dispatch to its
\* end and each worker runs job_runner to its end.
Fairness ==
    /\ WF_vars(MainStep)
    /\ \A t \in 1..MaxDispatch : WF_vars(report_progress(t) \/ job_runner(t))

FairSpec == Spec /\ Fairness

\* The analyzer after a build: the cache holds one of the built graphs and
\* the lookup tables are the ones the build derives from it.
GraphInit ==
    /\ _full_graph_cache \in BuiltGraphs
    /\ _nodes_by_id = NodesById(_full_graph_cache)
    /\ _adj = Adjacency(_full_graph_cache)
    /\ _rev_adj = ReverseAdjacency(_full_graph_cache)
    /\ query = NoQuery
    /\ builds = 1
    /\ NoCallers
    /\ NoAnalysis
    /\ variant = "Mendix_Navigation_Visualizer"
    /\ faults = 0
    /\ NoDispatch

\* The queries the plugin's RPC methods run on the analyzer.
GraphNext ==
    \/ getTraceabilityGraph
    \/ findPaths
    \/ findCommonUpstream
    \/ findCommonDownstream
    \/ getSubgraph

GraphSpec == GraphInit /\ [][GraphNext]_vars

\* The analyzer of a source model, called by the threads with a budget of
\* queries: calls[t] queries for thread t.
AnalyzerInit(models, calls) ==
    /\ root \in models
    /\ callers = [t \in Callers |-> Outside(calls[t])]
    /\ NotBuilt
    /\ NoAnalysis
    /\ variant = "Mendix_Navigation_Visualizer"
    /\ faults = 0
    /\ NoDispatch

\* The steps of a query: the build if the cache is empty, then the body.
BuildNext ==
    \E t \in Callers :
        \/ build_graph_if_needed(t)
        \/ seed(t)
        \/ expand(t)
        \/ store_cache(t)
        \/ store_nodes_by_id(t)
        \/ store_adj(t)
        \/ store_rev_adj(t)
        \/ fill_adjacency(t)
        \/ body(t)

\* The first query on a fresh analyzer, for every source model.
BuildInit == AnalyzerInit(SourceModels(MaxProfiles, MaxElements), <<1, 0>>)
BuildSpec == BuildInit /\ [][BuildNext]_vars

\* The steps of _build_graph_if_needed alone.
BuildSteps ==
    \E t \in Callers :
        \/ build_graph_if_needed(t)
        \/ seed(t)
        \/ expand(t)
        \/ store_cache(t)
        \/ store_nodes_by_id(t)
        \/ store_adj(t)
        \/ store_rev_adj(t)
        \/ fill_adjacency(t)

\* The build of the first query, the calling thread being scheduled until
\* _build_graph_if_needed has returned.
FairBuildSpec == BuildInit /\ [][BuildSteps]_vars /\ WF_vars(BuildSteps)

\* MaxCalls queries in sequence on one analyzer, the project being edited
\* between them.
LifecycleInit == AnalyzerInit(SourceModels(1, 1), <<MaxCalls, 0>>)
LifecycleNext == BuildNext \/ edit
LifecycleSpec == LifecycleInit /\ [][LifecycleNext]_vars

\* Two threads query a fresh analyzer at the same time.
RaceInit == AnalyzerInit(SourceModels(1, 1), <<1, 1>>)
RaceSpec == RaceInit /\ [][BuildNext]_vars

\* One run of NavigationAnalyzer.analyze, for every source model of the
\* route analysis.
RouteInit ==
    /\ root \in RouteModels(MaxItems, MaxElements)
    /\ callers = [t \in Callers |-> Outside(0)]
    /\ NotBuilt
    /\ NoAnalysis
    /\ variant = "page route visualizer"
    /\ faults = 0
    /\ NoDispatch

RouteNext ==
    \/ analyze
    \/ process_menu_item
    \/ process_element_actions
    \/ processed
    \/ get_graph_data

RouteSpec == RouteInit /\ [][RouteNext]_vars

\* The mock-task dispatcher on a transport of which up to MaxFaults calls raise.
InitFaulty == InitOf({"mock-task"}, {MaxFaults})
FaultySpec == InitFaulty /\ [][Next]_vars

\* The session requests of the mock-task dispatcher, with a sessionId that
\* is a string or a list, on a reliable transport.
SessionNext ==
    \/ \E request \in SessionRequests \cup ListSessionRequests : dispatch(request)
    \/ handle_session_connect
    \/ handle_session_disconnect
    \/ dispatch_except

SessionSpec == Init /\ [][SessionNext]_vars

----------------------------------------------------------------------------
(* RpcDispatcher of the graph plugins (JSON-RPC style requests)          *)

\* The plugins that answer through RpcDispatcher.handle_request.
RpcPlugins == {"navigation-visualizer", "navigation-visualizer-ocp", "page-route-visualizer"}

\* Of self._methods: a method without parameters and one with parameters.
ZeroArgMethod ==
    IF variant = "page-route-visualizer" THEN "get_root" ELSE "getTraceabilityGraph"
ArgsMethod ==
    CASE variant = "navigation-visualizer" -> "locateElement"
      [] variant = "navigation-visualizer-ocp" -> "getElementDetails"
      [] OTHER -> "locate"
_methods == {ZeroArgMethod, ArgsMethod}

\* json.loads turns a method written as a JSON array into a list.
ListMethod == "['get_root']"

\* The request dicts: method, params ({} | null | an array | the keyword
\* arguments of ArgsMethod) and id, each key possibly missing.
JsonRpc(method, params, id) == [method |-> method, params |-> params, id |-> id]
JsonRpcRequests ==
    {JsonRpc(m, p, i) :
        m \in {Absent, "", "nonexistent", ListMethod, "get_root", "getTraceabilityGraph",
               "locateElement", "getElementDetails", "locate"},
        p \in {Absent, "{}", None, "[]", "{args}"},
        i \in {Absent, "1"}}

\* An outcome of a call: a returned value or a raised exception.
Returns(value) == [raised |-> FALSE, value |-> value, exc |-> NoException]
Raises(e) == [raised |-> TRUE, value |-> None, exc |-> e]
CallError(parts) == [type |-> "TypeError", message |-> parts]

\* The outcomes of self._methods[method_name](**params).  A method given
\* its arguments returns or raises, as the host model lets it.
Invoke(method_name, params) ==
    IF params \in {None, "[]"}
    THEN {Raises(CallError(<<"argument after ** must be a mapping">>))}
    ELSE IF method_name = ZeroArgMethod
    THEN IF params = "{}"
         THEN {Returns("result")}
         ELSE {Raises(CallError(<<method_name, "() got an unexpected keyword argument">>))}
    ELSE IF params = "{}"
         THEN {Raises(CallError(<<method_name, "() missing required positional arguments">>))}
         ELSE {Returns("result"), Raises(KeyError("group"))}

\* The dict a return statement of handle_request builds.
Response(key, value, id) ==
    [keys |-> {"jsonrpc", key, "requestId"}, value |-> value, requestId |-> id]

\* What the except clause (or the unknown-method branch) gives as error.
ErrorOf(method_name, e) ==
    CASE variant = "navigation-visualizer" ->
           <<"An error occurred: ">> \o e.message \o <<"traceback">>
      [] variant = "navigation-visualizer-ocp" ->
           [message |-> <<"An error occurred in method '", method_name, "': ">>
                        \o e.message \o <<"traceback">>]
      [] OTHER ->
           [message |-> <<"Error in '", method_name, "': ">> \o e.message \o <<"traceback">>]
NotFound(method_name) == [message |-> <<"Method '", method_name, "' not found.">>]

\* The outcomes of the statements of handle_request that can raise before
\* the method is called: what the try block looks up, and what the
\* membership test ahead of it does.
Lookups(method_name) ==
    IF method_name = ListMethod THEN Raises(TypeError("list"))
    ELSE IF method_name \notin _methods THEN Raises(KeyError(method_name))
    ELSE Returns(method_name)

\* RpcDispatcher.handle_request(request), to its return or to the exception
\* that leaves it.  PostMessage("backend:info", ...) is a call of the host.
handle_request(request) ==
    /\ main.pc \in {"idle", "returned", "crashed"}
    /\ ndispatch < MaxDispatch
    /\ ndispatch' = ndispatch + 1
    /\ LET method_name == Get(request, "method")
           request_id == Get(request, "id")
           params == IF request.params = Absent THEN "{}" ELSE request.params
           m == Main("returned", request)
           found == Lookups(method_name)
           info(text) == Envelope("backend:info", Absent, <<>>, text, -1, Absent)
           \* the except clause, and the unknown-method branch of the ocp plugin
           reported(ncalls, e, error) ==
               \E raised \in PostMessageRaises :
                   /\ hub_send(0, info(error), raised)
                   /\ main' = IF raised
                              THEN Raise_uncaught([m EXCEPT !.ncalls = ncalls], PostMessageError)
                              ELSE [m EXCEPT !.ncalls = ncalls, !.exc = e,
                                             !.result = Response("error", error, request_id)]
           not_found ==
               IF variant = "navigation-visualizer-ocp"
               THEN reported(0, NoException, NotFound(method_name))
               ELSE /\ main' = [m EXCEPT !.result =
                                  Response("error", NotFound(method_name), request_id)]
                    /\ UNCHANGED <<sent, faults>>
           try ==
               IF found.raised
               THEN reported(0, found.exc, ErrorOf(method_name, found.exc))
               ELSE \E outcome \in Invoke(method_name, params) :
                    IF outcome.raised
                    THEN reported(1, outcome.exc, ErrorOf(method_name, outcome.exc))
                    ELSE /\ main' = [m EXCEPT !.ncalls = 1,
                                       !.result = Response("result", outcome.value, request_id)]
                         /\ UNCHANGED <<sent, faults>>
       IN  IF variant = "navigation-visualizer"
           THEN try
           ELSE IF ~Truthy(method_name)
           THEN \* `not method_name`
                not_found
           ELSE IF method_name = ListMethod
           THEN \* `method_name not in self._methods` hashes the list
                /\ main' = Raise_uncaught(m, TypeError("list"))
                /\ UNCHANGED <<sent, faults>>
           ELSE IF method_name \notin _methods
           THEN not_found
           ELSE try
    /\ UNCHANGED <<analyzer_vars, variant, threads, active_sessions, draws>>

RpcInit == InitOf(RpcPlugins, {0})
RpcNext == \E request \in JsonRpcRequests : handle_request(request)
RpcSpec == RpcInit /\ [][RpcNext]_vars

----------------------------------------------------------------------------
(* What the current dispatch call and the jobs have sent *)

\* The positions of `sent` written by the calling thread since the current
\* dispatch call began.
SentByDispatch == {i \in (main.mark + 1)..Len(sent) : sent[i].thread = 0}

RpcTerminals == {i \in SentByDispatch : sent[i].msg.type \in {"RPC_SUCCESS", "RPC_ERROR"}}

\* The positions of `sent` holding an envelope of one of `types` with jobId j.
JobEnvelopes(j, types) ==
    {i \in 1..Len(sent) : sent[i].msg.type \in types /\ sent[i].msg.jobId = j}

JobTerminals(j) == JobEnvelopes(j, {"JOB_SUCCESS", "JOB_ERROR"})

\* The handler of the current dispatch raised: execute was called, left no
\* result, and the try block ended in an exception.
HandlerRaised == main.ncalls > 0 /\ main.result = Absent /\ main.exc # NoException

----------------------------------------------------------------------------
(* C1 *)

RegisteredRpc == main.request.type = "RPC" /\ main.request.method \in RpcRegistry

\* The dispatch of an RPC request has sent at most one terminal envelope,
\* and once it has returned exactly one, carrying the request's reqId:
\* RPC_SUCCESS if execute returned, RPC_ERROR if it raised.
OneRpcTerminal ==
    /\ Cardinality(RpcTerminals) <= 1
    /\ main.pc = "returned" =>
         /\ Cardinality(RpcTerminals) = 1
         /\ \A i \in RpcTerminals :
              /\ sent[i].msg.reqId = main.request.reqId
              /\ sent[i].msg.type = (IF main.exc = NoException
                                     THEN "RPC_SUCCESS" ELSE "RPC_ERROR")

----------------------------------------------------------------------------
(* C2 *)

\* C2 as stated, for a JOB_START request that carries a non-empty reqId:
\* every JOB_PROGRESS, JOB_SUCCESS and JOB_ERROR envelope of the job has the
\* job's JOB_STARTED envelope somewhere before it in `sent`, whatever the
\* interleaving of the worker with the calling thread.
C2_StartedBeforeProgress ==
    \A t \in DOMAIN threads :
        Truthy(Get(threads[t].request, "reqId")) =>
            \A i \in JobEnvelopes(threads[t].job_id,
                                  {"JOB_PROGRESS", "JOB_SUCCESS", "JOB_ERROR"}) :
                \E k \in JobEnvelopes(threads[t].job_id, {"JOB_STARTED"}) : k < i

----------------------------------------------------------------------------
(* C3 *)

\* A job has sent no terminal envelope while its handler runs and exactly
\* one once job_runner is done: JOB_SUCCESS if run returned, JOB_ERROR if it
\* raised.
C3_AtMostOneTerminal ==
    \A t \in DOMAIN threads :
        LET w == threads[t]
            terminals == JobTerminals(w.job_id)
        IN  IF w.pc = "run"
            THEN terminals = {}
            ELSE /\ Cardinality(terminals) = 1
                 /\ \A i \in terminals :
                      /\ sent[i].thread = t
                      /\ sent[i].msg.type = (IF w.outcome = "returned"
                                             THEN "JOB_SUCCESS" ELSE "JOB_ERROR")

\* No step of the calling thread (no dispatch of any request) touches a
\* started worker.
C3_NoCancel ==
    main' # main => SubSeq(threads', 1, Len(threads)) = threads

\* C3: every launched job sends exactly one terminal envelope: never two
\* with the same jobId, eventually one (JOB_SUCCESS on return, JOB_ERROR on
\* raise), and no later dispatch cancels the worker or suppresses it.
C3_ExactlyOneJobTerminal ==
    /\ []C3_AtMostOneTerminal
    /\ [][C3_NoCancel]_vars
    /\ \A t \in 1..MaxDispatch :
         (t \in DOMAIN threads) ~>
             (/\ t \in DOMAIN threads
              /\ threads[t].pc = "done"
              /\ Cardinality(JobTerminals(threads[t].job_id)) = 1)

\* A job has sent its terminal envelope after a later request was dispatched
\* and answered.
C3_Witness ==
    /\ Len(threads) >= 1
    /\ threads[1].pc = "done"
    /\ ndispatch = 2
    /\ main.pc = "returned"
    /\ \E i \in JobTerminals(threads[1].job_id) : i > main.mark /\ i = Len(sent)

----------------------------------------------------------------------------
(* C4 *)

JobStarteds == {i \in 1..Len(sent) : sent[i].msg.type = "JOB_STARTED"}

\* C4: a JOB_STARTED envelope carries the reqId of the request being
\* dispatched and the job id of the thread that dispatch started; no two
\* JOB_STARTED envelopes (and no two threads) share a job id; every envelope
\* a worker sends is a JOB_PROGRESS, JOB_SUCCESS or JOB_ERROR carrying
\* exactly its own job id.
C4_JobIds ==
    /\ \A i \in JobStarteds : sent[i].thread = 0
    /\ \A i \in JobStarteds \cap SentByDispatch :
         /\ main.request.type = "JOB_START"
         /\ main.request.method \in JobRegistry
         /\ sent[i].msg.reqId = main.request.reqId
         /\ sent[i].msg.jobId = threads[Len(threads)].job_id
         /\ threads[Len(threads)].request = main.request
    /\ \A i, k \in JobStarteds : i # k => sent[i].msg.jobId # sent[k].msg.jobId
    /\ \A t, u \in DOMAIN threads : t # u => threads[t].job_id # threads[u].job_id
    /\ \A i \in 1..Len(sent) :
         sent[i].thread # 0 =>
            /\ sent[i].thread \in DOMAIN threads
            /\ sent[i].msg.type \in {"JOB_PROGRESS", "JOB_SUCCESS", "JOB_ERROR"}
            /\ sent[i].msg.jobId = threads[sent[i].thread].job_id

\* Two jobs were started and both have reported progress under their own
\* job ids.
C4_Witness ==
    /\ Cardinality(JobStarteds) = 2
    /\ Len(threads) = 2
    /\ JobEnvelopes(threads[1].job_id, {"JOB_PROGRESS"}) # {}
    /\ JobEnvelopes(threads[2].job_id, {"JOB_PROGRESS"}) # {}
    /\ threads[2].pc = "done"

----------------------------------------------------------------------------
(* C5, C6, C7 *)

\* The f-string message holds the value s.
Contains(message, s) == \E k \in DOMAIN message : message[k] = s

\* The current dispatch has sent exactly one envelope, the RPC_ERROR for the
\* request's reqId, with a message that holds `text` and the value `name`.
OnlyErrorEnvelope(text, name) ==
    /\ Cardinality(SentByDispatch) = 1
    /\ \A i \in SentByDispatch :
         /\ sent[i].msg.type = "RPC_ERROR"
         /\ sent[i].msg.reqId = main.request.reqId
         /\ Contains(sent[i].msg.message, text)
         /\ Contains(sent[i].msg.message, name)

\* C5 as stated, for a non-empty reqId x: an RPC request for a method that
\* is not in the RPC registry is answered by exactly one envelope, RPC_ERROR
\* with reqId x and the message "No RPC handler for '<method>'"; no handler
\* runs.
C5_UnknownRpcMethod ==
    ( /\ main.pc = "returned"
      /\ main.request.type = "RPC"
      /\ main.request.method \notin RpcRegistry \cup {Absent}
      /\ Truthy(Get(main.request, "reqId")) )
    => /\ OnlyErrorEnvelope("No RPC handler for '", main.request.method)
       /\ main.ncalls = 0

\* C6 as stated, for a non-empty reqId: a JOB_START request for a method
\* that is not in the Job registry is answered by exactly one error envelope
\* with the request's reqId and the message "No Job handler for '<method>'";
\* no job id is generated, no JOB_STARTED is sent, no worker is started.
C6_UnknownJobMethod ==
    ( /\ main.request.type = "JOB_START"
      /\ main.request.method \notin JobRegistry \cup {Absent}
      /\ Truthy(Get(main.request, "reqId")) )
    => /\ main.job_id = <<>>
       /\ \A t \in DOMAIN threads : threads[t].request.method \in JobRegistry
       /\ JobStarteds \cap SentByDispatch = {}
       /\ main.pc = "returned" =>
            OnlyErrorEnvelope("No Job handler for '", main.request.method)

\* C7 as stated: a request whose type is absent or unknown runs no handler;
\* it is answered by exactly one RPC_ERROR with its reqId if it has a
\* (non-empty) reqId and by no envelope at all if it has none.
C7_UnknownType ==
    ( /\ main.pc = "returned"
      /\ Route(Get(main.request, "type")) = "unknown" )
    => /\ main.ncalls = 0
       /\ main.handler = None
       /\ Truthy(Get(main.request, "reqId")) =>
            OnlyErrorEnvelope("Unknown message type: ", Fmt(main.request.type))
       /\ main.request.reqId = Absent => SentByDispatch = {}

----------------------------------------------------------------------------
(* C8 *)

\* The job a JOB_START dispatch started is still running after the dispatch
\* has returned.
RunningJobs ==
    {t \in DOMAIN threads :
        threads[t].pc = "run" /\ JobEnvelopes(threads[t].job_id, {"JOB_STARTED"}) # {}}

\* C8: dispatch never waits for a worker: whatever the workers are doing,
\* the calling thread inside dispatch can take its next step, and once it
\* has returned the next request (an RPC among them) can be dispatched.
C8_DispatchNeverWaits ==
    /\ ~Idle => ENABLED MainStep
    /\ (Idle /\ ndispatch < MaxDispatch) =>
          \A request \in Requests : ENABLED dispatch(request)

\* While the job of an earlier JOB_START is still running, a later RPC has
\* been dispatched and answered with its own terminal envelope.
C8_Witness ==
    /\ main.pc = "returned"
    /\ RegisteredRpc
    /\ \E i \in RpcTerminals : sent[i].msg = RPC_SUCCESS("r1", main.result)
    /\ \E t \in RunningJobs :
          /\ JobTerminals(threads[t].job_id) = {}
          /\ \E k \in JobEnvelopes(threads[t].job_id, {"JOB_STARTED"}) : k <= main.mark

----------------------------------------------------------------------------
(* C9 *)

C9_Caught ==
    (main.request.type = "RPC" /\ HandlerRaised) =>
       /\ main.pc \in {"except", "returned"}
       /\ main.pc = "except" => SentByDispatch = {}
       /\ main.pc = "returned" =>
            IF Truthy(Get(main.request, "reqId"))
            THEN /\ Cardinality(SentByDispatch) = 1
                 /\ \A i \in SentByDispatch :
                      sent[i].msg = RPC_ERROR(main.request.reqId, main.exc.message)
            ELSE SentByDispatch = {}

\* The steps of a failing RPC (execute raising, the except clause) leave
\* the registries' variant, the workers, the sessions and the id source as
\* they were and add at most the RPC_ERROR to the hub's log.
C9_Frame ==
    ( /\ main.request.type = "RPC"
      /\ \/ main.pc = "execute" /\ main'.pc # "rpc_success"
         \/ main.pc = "except" /\ HandlerRaised
      /\ main' # main )
    => /\ UNCHANGED <<variant, threads, faults, active_sessions, draws, ndispatch>>
       /\ \/ sent' = sent
          \/ sent' = send(sent, 0, RPC_ERROR(Get(main.request, "reqId"), main.exc.message))

----------------------------------------------------------------------------
(* C10 *)

\* Only a job whose own handler raised has a JOB_ERROR envelope; a job whose
\* handler ran to its end has sent all its progress envelopes and JOB_SUCCESS.
C10_OwnOutcome ==
    \A t \in DOMAIN threads :
        LET w == threads[t]
        IN  /\ JobEnvelopes(w.job_id, {"JOB_ERROR"}) # {} =>
                 (w.outcome = "raised" /\ Endings([w EXCEPT !.pc = "run"]) # {})
            /\ (w.pc = "done" /\ w.step = Reports(w.handler)) =>
                 /\ Cardinality(JobEnvelopes(w.job_id, {"JOB_PROGRESS"})) = w.step
                 /\ JobEnvelopes(w.job_id, {"JOB_SUCCESS"}) # {}

\* A step of one worker changes neither another worker nor the calling thread.
C10_OwnThread ==
    \A t \in DOMAIN threads :
        threads'[t] # threads[t] =>
            /\ main' = main
            /\ \A u \in DOMAIN threads \ {t} : threads'[u] = threads[u]

\* C10: with several jobs running, a raising handler ends only its own job
\* with JOB_ERROR; every other job still sends its progress envelopes and
\* its single terminal envelope, and the dispatcher keeps accepting requests.
C10_CrashIsolation ==
    /\ []C10_OwnOutcome
    /\ [][C10_OwnThread]_vars
    /\ \A t \in 1..MaxDispatch :
         (t \in DOMAIN threads /\ Get(threads[t].request, "params") # None) ~>
             (/\ t \in DOMAIN threads
              /\ threads[t].pc = "done"
              /\ threads[t].outcome = "returned"
              /\ Cardinality(JobEnvelopes(threads[t].job_id, {"JOB_PROGRESS"}))
                    = Reports(threads[t].handler))

\* Two jobs ran at the same time; one ended with JOB_ERROR, the other sent
\* progress before and after that and ended with JOB_SUCCESS.
C10_Witness ==
    /\ Len(threads) = 2
    /\ \E t, u \in DOMAIN threads :
         /\ threads[t].outcome = "raised"
         /\ threads[u].outcome = "returned"
         /\ \E e \in JobEnvelopes(threads[t].job_id, {"JOB_ERROR"}) :
              /\ \E i \in JobEnvelopes(threads[u].job_id, {"JOB_PROGRESS"}) : i < e
              /\ \E i \in JobEnvelopes(threads[u].job_id, {"JOB_PROGRESS"}) : i > e
              /\ \E i \in JobEnvelopes(threads[u].job_id, {"JOB_SUCCESS"}) : i > e

----------------------------------------------------------------------------
(* C11 *)

\* Each job has one JOB_PROGRESS envelope per report_progress call its
\* handler has made, each sent by the job's own thread; the k-th of them
\* carries the progress of the k-th call, and all of them precede the job's
\* JOB_SUCCESS/JOB_ERROR envelope.
C11_InCallOrder ==
    \A t \in DOMAIN threads :
        LET w == threads[t]
            progress == JobEnvelopes(w.job_id, {"JOB_PROGRESS"})
        IN  /\ Cardinality(progress) = w.step
            /\ \A i \in progress :
                 /\ sent[i].thread = t
                 /\ sent[i].msg.progress =
                       Percent(w.handler, Cardinality({k \in progress : k < i}))
                 /\ \A k \in JobTerminals(w.job_id) : i < k

\* The step in which a handler's report_progress call returns appends that
\* call's JOB_PROGRESS envelope, and nothing else, to what the hub has sent.
C11_AtTheCall ==
    \A t \in DOMAIN threads :
        threads'[t].step = threads[t].step + 1 =>
            sent' = Append(sent,
                      [thread |-> t,
                       msg |-> JOB_PROGRESS(threads[t].job_id,
                                            Percent(threads[t].handler, threads[t].step))])

\* C11: within one job every report_progress call sends exactly one
\* JOB_PROGRESS envelope at the moment of the call, the job's JOB_PROGRESS
\* envelopes appear in the order of the calls, and none of them is sent
\* after the job's JOB_SUCCESS/JOB_ERROR envelope.
C11_ProgressInOrder == []C11_InCallOrder /\ [][C11_AtTheCall]_vars

\* A FileImportJob has reported 0, 25, 60 and 95 and then succeeded, while
\* another job's envelopes were sent in between.
C11_Witness ==
    /\ Len(threads) = 2
    /\ threads[1].pc = "done"
    /\ threads[1].outcome = "returned"
    /\ Cardinality(JobEnvelopes(threads[1].job_id, {"JOB_PROGRESS"})) = 4
    /\ \E i, k \in JobEnvelopes(threads[1].job_id, {"JOB_PROGRESS"}) :
         \E j \in JobEnvelopes(threads[2].job_id, {"JOB_PROGRESS"}) : i < j /\ j < k
    /\ \E i \in JobTerminals(threads[1].job_id) : i = Len(sent)

----------------------------------------------------------------------------
(* C12 *)

\* C12 as stated: hub.send never raises to its caller: a step in which
\* post_message raises delivers nothing and leaves the caller on its normal
\* path: no exception reaches dispatch's except clause or leaves dispatch,
\* no handler's report_progress call raises, no job_runner enters its
\* except clause or dies.
C12_SendNeverRaises ==
    [][faults' < faults =>
          /\ sent' = sent
          /\ main'.exc = main.exc
          /\ main'.pc \notin {"except", "raised"}
          /\ \A t \in DOMAIN threads :
               /\ threads'[t].failed = threads[t].failed
               /\ threads'[t].pc # "died"]_vars

----------------------------------------------------------------------------
(* C13 *)

\* C13 as stated, for the controllers of src/mock-task and
\* src/log-extractor: after the dispatch of a SESSION_CONNECT or
\* SESSION_DISCONNECT for a channel without a handler in the Session
\* registry, no handler was called and no envelope (in particular no error
\* envelope) was sent.
C13_NoSessionHandlerNoEffect ==
    ( /\ variant \in {"mock-task", "log-extractor"}
      /\ main.pc = "returned"
      /\ main.request.type \in {"SESSION_CONNECT", "SESSION_DISCONNECT"}
      /\ main.request.channel \notin SessionRegistry \cup {Absent} )
    => /\ main.ncalls = 0
       /\ SentByDispatch = {}

----------------------------------------------------------------------------
(* The cached graph as the claims speak of it: node ids, edges, paths *)

GraphNodeIds == {_full_graph_cache.nodes[i].id : i \in DOMAIN _full_graph_cache.nodes}

GraphEdges == {_full_graph_cache.edges[i] : i \in DOMAIN _full_graph_cache.edges}

HasEdge(source, target) ==
    \E edge \in GraphEdges : edge.source = source /\ edge.target = target

\* The ids reached from the ids of S along at most k forward edges.
RECURSIVE Within(_, _)
Within(S, k) ==
    IF k = 0 THEN S
    ELSE Within(S \cup {t \in GraphNodeIds : \E s \in S : HasEdge(s, t)}, k - 1)

\* The ids id reaches along forward edges, id included.
Descendants(id) == Within({id}, Cardinality(GraphNodeIds))

\* The ids from which the ids of S are reached along at most k edges.
RECURSIVE WithinBack(_, _)
WithinBack(S, k) ==
    IF k = 0 THEN S
    ELSE WithinBack(S \cup {s \in GraphNodeIds : \E t \in S : HasEdge(s, t)}, k - 1)

\* The ids from which a directed path leads to id, id included.
Ancestors(id) == WithinBack({id}, Cardinality(GraphNodeIds))

\* The number of edges of a shortest directed path from source to target.
Distance(source, target) ==
    CHOOSE k \in 0..Cardinality(GraphNodeIds) :
        /\ target \in Within({source}, k)
        /\ \A j \in 0..(k - 1) : target \notin Within({source}, j)

Count(a_list, x) == Cardinality({i \in DOMAIN a_list : a_list[i] = x})

\* result is the subgraph induced by the ids of S: its nodes are the
\* graph's nodes with an id in S, each once, and it holds every edge of the
\* graph with both ends in S as often as the graph does, and no other edge.
IsInduced(result, S) ==
    /\ {result.nodes[i] : i \in DOMAIN result.nodes}
          = {Node(id) : id \in S \cap GraphNodeIds}
    /\ Len(result.nodes) = Cardinality(S \cap GraphNodeIds)
    /\ \A edge \in GraphEdges \cup {result.edges[i] : i \in DOMAIN result.edges} :
          Count(result.edges, edge) =
             IF edge.source \in S /\ edge.target \in S
             THEN Count(_full_graph_cache.edges, edge)
             ELSE 0

\* The ids every list entry has in `related`, minus the list's own ids.
CommonOf(node_ids, related(_)) ==
    LET sets == [i \in DOMAIN node_ids |-> related(node_ids[i])]
    IN  {n \in QueryIds : \A i \in DOMAIN node_ids : n \in sets[i]}
            \ {node_ids[i] : i \in DOMAIN node_ids}

----------------------------------------------------------------------------
(* C14 *)

\* C14: for every set S of node ids, ids outside the graph included,
\* get_subgraph(S) returns as nodes exactly the graph's nodes with an id in
\* S and as edges exactly the graph's edges whose source and target are both
\* in S; an edge with one end in S is absent.
C14_SubgraphIsInduced ==
    query.op = "get_subgraph" =>
        IsInduced(query.result, {query.args[i] : i \in DOMAIN query.args})

\* get_subgraph was asked for a set with an id outside the graph; the graph
\* has an edge inside the set, which is returned, and an edge leaving it.
C14_Witness ==
    /\ query.op = "get_subgraph"
    /\ LET S == {query.args[i] : i \in DOMAIN query.args}
       IN  /\ "X" \in S
           /\ query.result.edges # <<>>
           /\ \E edge \in GraphEdges : edge.source \in S /\ edge.target \notin S
           /\ \E edge \in GraphEdges : edge.source \notin S /\ edge.target \in S

----------------------------------------------------------------------------
(* C15 *)

\* C15: neither find_common_upstream(nodeIds) nor
\* find_common_downstream(nodeIds) returns a node whose id is in nodeIds or
\* an edge with such an id as an end, also when a cycle runs through a node
\* of nodeIds.
C15_SelectedExcluded ==
    query.op \in {"find_common_upstream", "find_common_downstream"} =>
        LET selected == {query.args[i] : i \in DOMAIN query.args}
        IN  /\ \A i \in DOMAIN query.result.nodes : query.result.nodes[i].id \notin selected
            /\ \A i \in DOMAIN query.result.edges :
                 /\ query.result.edges[i].source \notin selected
                 /\ query.result.edges[i].target \notin selected

\* The common ancestors of D were asked for in a graph with the cycle
\* D -> B -> D, which makes D its own ancestor, and the result has an edge.
C15_Witness ==
    /\ query.op = "find_common_upstream"
    /\ query.args = <<"D">>
    /\ HasEdge("B", "D") /\ HasEdge("D", "B")
    /\ query.result.edges # <<>>

----------------------------------------------------------------------------
(* C16 *)

\* C16: find_common_upstream(nodeIds) is the subgraph induced by the
\* intersection, over the ids of nodeIds, of the id with its ancestors along
\* the graph's edges, minus nodeIds; for the empty list it is the empty
\* graph.
C16_CommonUpstream ==
    query.op = "find_common_upstream" =>
        IF query.args = <<>>
        THEN query.result = [nodes |-> <<>>, edges |-> <<>>]
        ELSE IsInduced(query.result, CommonOf(query.args, Ancestors))

\* Two different nodes have two common ancestors joined by an edge, and a
\* third node is an ancestor of only one of them.
C16_Witness ==
    /\ query.op = "find_common_upstream"
    /\ Len(query.args) = 2
    /\ query.args[1] # query.args[2]
    /\ Len(query.result.nodes) = 2
    /\ query.result.edges # <<>>
    /\ Ancestors(query.args[1]) # Ancestors(query.args[2])

----------------------------------------------------------------------------
(* C17 *)

\* The graph of the example: A -SHOWS-> B -CALLS-> D (A the navigation
\* item NAV, B the page P1, D the microflow MF1).
ChainGraph ==
    _full_graph_cache.edges = <<Edge("A", "B", "SHOWS"), Edge("B", "D", "CALLS")>>

\* C17: find_common_downstream(nodeIds) is the subgraph induced by the
\* intersection, over the ids of nodeIds, of the ids reachable from the id
\* along forward edges (the id included), minus nodeIds; for the graph
\* NAV -SHOWS-> P1 -CALLS-> MF1 and nodeIds = [NAV] it has the nodes P1 and
\* MF1 and the single edge P1 -> MF1.
C17_CommonDownstream ==
    query.op = "find_common_downstream" =>
        /\ IF query.args = <<>>
           THEN query.result = [nodes |-> <<>>, edges |-> <<>>]
           ELSE IsInduced(query.result, CommonOf(query.args, Descendants))
        /\ (ChainGraph /\ query.args = <<"A">>) =>
              query.result = [nodes |-> <<Node("B"), Node("D")>>,
                              edges |-> <<Edge("B", "D", "CALLS")>>]

\* The example: the common descendants of the chain's first node.
C17_Witness ==
    /\ query.op = "find_common_downstream"
    /\ ChainGraph
    /\ query.args = <<"A">>
    /\ Len(query.result.nodes) = 2

----------------------------------------------------------------------------
(* C18 *)

\* C18: a path returned by find_paths(start, end) begins with the node
\* start, ends with the node end, joins every two consecutive nodes by a
\* forward edge of the graph, and has as few edges as any directed path from
\* start to end.
C18_ShortestPath ==
    (query.op = "find_paths" /\ query.result # <<>>) =>
        LET path == query.result[1]
        IN  /\ Len(path) >= 1
            /\ path[1] = Node(query.args[1])
            /\ path[Len(path)] = Node(query.args[2])
            /\ \A i \in 1..(Len(path) - 1) : HasEdge(path[i].id, path[i + 1].id)
            /\ Len(path) - 1 = Distance(query.args[1], query.args[2])

\* A path of two edges, C -> D -> B, was returned in a graph in which the
\* start has a self-loop and the end an edge back into the path.
C18_Witness ==
    /\ query.op = "find_paths"
    /\ query.args = <<"C", "B">>
    /\ HasEdge("C", "C") /\ HasEdge("B", "D")
    /\ query.result # <<>>
    /\ Len(query.result[1]) = 3

----------------------------------------------------------------------------
(* C19 *)

----------------------------------------------------------------------------
(* C20 *)

\* The graph is the diamond A -> B -> D, A -> C -> D.
Diamond ==
    {<<edge.source, edge.target>> : edge \in GraphEdges}
        = {<<"A", "B">>, <<"B", "D">>, <<"A", "C">>, <<"C", "D">>}

\* The position of the first edge from source to target in the edge list.
InsertedAt(source, target) ==
    CHOOSE i \in DOMAIN _full_graph_cache.edges :
        /\ _full_graph_cache.edges[i].source = source
        /\ _full_graph_cache.edges[i].target = target
        /\ \A k \in 1..(i - 1) :
              ~(/\ _full_graph_cache.edges[k].source = source
                /\ _full_graph_cache.edges[k].target = target)

----------------------------------------------------------------------------
(* C30 *)

\* The RPC_ERROR envelopes the current dispatch has sent for a request whose
\* type is none of RPC, JOB_START, SESSION_CONNECT, SESSION_DISCONNECT.
UnknownTypeErrors ==
    IF Route(Get(main.request, "type")) = "unknown"
    THEN {i \in SentByDispatch : sent[i].msg.type = "RPC_ERROR"}
    ELSE {}

\* C30 as stated: for a request whose type is not recognised and which
\* carries a reqId, the message of the error envelope sent to the caller is
\* "No handler for command type: <type>", <type> being the request's type.
C30_NoHandlerForCommandType ==
    \A i \in UnknownTypeErrors :
        sent[i].msg.message = <<"No handler for command type: ", Fmt(main.request.type)>>

\* C30, amended: for a request whose type is not recognised and which
\* carries a non-empty reqId, the error envelope carries the request's reqId
\* and its message is "Unknown message type: <type>", <type> being the
\* request's type (None when the request has no type).
C30_UnknownMessageType ==
    /\ \A i \in UnknownTypeErrors :
          /\ sent[i].msg.reqId = main.request.reqId
          /\ sent[i].msg.message = <<"Unknown message type: ", Fmt(main.request.type)>>
    /\ ( /\ main.pc = "returned"
         /\ Route(Get(main.request, "type")) = "unknown"
         /\ Truthy(Get(main.request, "reqId")) )
       => Cardinality(UnknownTypeErrors) = 1

\* A request of an unknown type with a non-empty reqId has been answered.
C30_Witness ==
    /\ main.pc = "returned"
    /\ main.request.type \notin {Absent, "RPC", "JOB_START", "SESSION_CONNECT", "SESSION_DISCONNECT"}
    /\ Truthy(Get(main.request, "reqId"))
    /\ UnknownTypeErrors # {}

----------------------------------------------------------------------------
(* The source model as the claims speak of it *)

\* The home pages the navigation profiles name.
HomePages ==
    {root.profiles[i].page : i \in DOMAIN root.profiles} \ {None, ""}

\* The ids of the navigation nodes: one per profile name with a home page.
NavigationIds ==
    {"Navigation." \o root.profiles[i].Name :
        i \in {k \in DOMAIN root.profiles : root.profiles[k].page \notin {None, ""}}}

\* The non-null references (target, type) the document `name` holds.
References(name) ==
    {<<root.units[name].elements[i].target, root.units[name].elements[i].type>> :
        i \in {k \in DOMAIN root.units[name].elements :
                  root.units[name].elements[k].target \notin {None, ""}}}

\* The names reached from the names of S through at most k references.
RECURSIVE ReachedWithin(_, _)
ReachedWithin(S, k) ==
    IF k = 0 THEN S
    ELSE ReachedWithin(
            S \cup UNION {{ref[1] : ref \in References(name)} : name \in S \cap DOMAIN root.units},
            k - 1)

\* The names reachable from a home page (at most four names exist).
Reached == ReachedWithin(HomePages, 4)

\* The graph the source model determines: its node ids and its edges.
ExpectedNodeIds == NavigationIds \cup Reached

ExpectedEdges ==
    {Edge("Navigation." \o root.profiles[i].Name, root.profiles[i].page, "SHOWS") :
        i \in {k \in DOMAIN root.profiles : root.profiles[k].page \notin {None, ""}}}
    \cup UNION {{Edge(name, ref[1], ref[2]) : ref \in References(name)} :
                  name \in Reached \cap DOMAIN root.units}

\* Every build that was started has assigned the cache and the tables.
BuildDone == builds >= 1 /\ \A t \in Callers : callers[t].pc \in {"idle", "body"}

----------------------------------------------------------------------------
(* C21 *)

\* C21: two builds from identical source records, each on a fresh
\* analyzer, yield the same set of node ids and the same set of (source,
\* target, type) edges: whatever order list(set(refs)) takes, the sets of a
\* built graph are the ones the source records determine.
C21_SameSets ==
    (Built /\ builds = 1) =>
        /\ GraphNodeIds = ExpectedNodeIds
        /\ GraphEdges = ExpectedEdges

\* A build has recorded the two references of App.M in the order opposite
\* to the one the document holds them in.
C21_Witness ==
    /\ Built
    /\ root.units["App.M"].elements = <<Element("App.Q", "CALLS"), Element("App.Z", "CALLS")>>
    /\ \E i, j \in DOMAIN _full_graph_cache.edges :
         /\ i < j
         /\ _full_graph_cache.edges[i] = Edge("App.M", "App.Z", "CALLS")
         /\ _full_graph_cache.edges[j] = Edge("App.M", "App.Q", "CALLS")

----------------------------------------------------------------------------
(* C22 *)

C22_BuiltOnce ==
    /\ builds <= 1
    /\ (query.n >= 1 \/ \E t \in Callers : callers[t].pc # "idle") => builds = 1
    /\ query.op = "get_full_graph" => query.result = _full_graph_cache

C22_CacheKept ==
    /\ Built => _full_graph_cache' = _full_graph_cache
    /\ query.n >= 1 => UNCHANGED <<_nodes_by_id, _adj, _rev_adj>>

----------------------------------------------------------------------------
(* C23 *)

\* C23: when two queries on the same analyzer run concurrently while the
\* cache is empty, the build is executed at most once and both queries are
\* answered from the same fully built graph (none fails for a table that is
\* not there yet).
C23_SingleBuild ==
    /\ builds <= 1
    /\ \A t \in Callers : callers[t].exc = NoException

----------------------------------------------------------------------------
(* C24 *)

\* C24: the edge list of a built graph holds no two entries with the same
\* (source, target, type), whatever the source records are.
C24_NoDuplicateEdges ==
    Built =>
        \A i, j \in DOMAIN _full_graph_cache.edges :
            i # j => _full_graph_cache.edges[i] # _full_graph_cache.edges[j]

----------------------------------------------------------------------------
(* C25 *)

\* C25: after the build every node id of the graph is a key of the forward
\* and of the reverse adjacency map; a node without outgoing (incoming)
\* edges maps to the empty list.
C25_EveryNodeIsKey ==
    BuildDone =>
        /\ DOMAIN _adj = GraphNodeIds
        /\ DOMAIN _rev_adj = GraphNodeIds
        /\ \A id \in GraphNodeIds :
             /\ (~\E edge \in GraphEdges : edge.source = id) => _adj[id] = <<>>
             /\ (~\E edge \in GraphEdges : edge.target = id) => _rev_adj[id] = <<>>

\* A build has ended with a node that has no outgoing edge (the missing
\* App.Z) and a node that has no incoming edge (the navigation node).
C25_Witness ==
    /\ BuildDone
    /\ "App.Z" \in GraphNodeIds
    /\ "Navigation.Web" \in GraphNodeIds
    /\ _adj["App.Z"] = <<>>
    /\ _rev_adj["Navigation.Web"] = <<>>

----------------------------------------------------------------------------
(* The route analysis as the claims speak of it *)

\* The pairs (from, to) of the edges the route analysis has recorded.
RouteEdges == {<<_edges[i].from, _edges[i].to>> : i \in DOMAIN _edges}

\* The actions of the unit `name` that name a page or microflow of the project.
Resolvable(name) ==
    {el \in {root.units[name].elements[i] : i \in DOMAIN root.units[name].elements} :
        el.target \notin {None, ""} /\ el.target \in DOMAIN root.units}

\* Every action names a unit of the kind it is for: show-page actions name
\* pages, microflow calls name microflows.
WellTyped ==
    \A name \in DOMAIN root.units : \A el \in Resolvable(name) :
        (el.type = "SHOWS") = root.units[el.target].is_page

\* analyze has returned the graph.
Analyzed == analysis.pc = "done"

----------------------------------------------------------------------------
(* C26 *)

\* C26: the graph build ends for every finite source model, each element
\* being expanded at most once, and every reference of an expanded element
\* into an element that is processed already or is being expanded (a
\* self-reference included) is recorded as an edge.  Stated for the route
\* analysis: once analyze has returned, every action of a processed unit
\* that names a unit of the project has its edge.
C26_ReferencesRecorded ==
    (Analyzed /\ WellTyped) =>
        \A id \in _processed_elements : \A el \in Resolvable(id) :
            <<id, el.target>> \in RouteEdges

----------------------------------------------------------------------------
(* C27 *)

\* The documents a build expands: the ones reachable from a home page.
Expanded == Reached \cap DOMAIN root.units

\* The documents with an element that names nothing.
WithNullReference ==
    {name \in DOMAIN root.units :
        \E i \in DOMAIN root.units[name].elements :
            root.units[name].elements[i].target \in {None, ""}}

C27_NullDropped ==
    /\ \A t \in Callers :
         /\ \A i \in DOMAIN callers[t].nodes_map : callers[t].nodes_map[i].id \notin {None, ""}
         /\ \A i \in DOMAIN callers[t].edges_list :
              /\ callers[t].edges_list[i].source \notin {None, ""}
              /\ callers[t].edges_list[i].target \notin {None, ""}
         /\ \A i \in DOMAIN callers[t].queue : callers[t].queue[i] \notin {None, ""}
    /\ BuildDone =>
         /\ \A id \in GraphNodeIds : id \notin {None, ""}
         /\ \A edge \in GraphEdges : edge.source \notin {None, ""} /\ edge.target \notin {None, ""}
         /\ \A name \in Expanded \cap WithNullReference : \A ref \in References(name) :
              /\ Edge(name, ref[1], ref[2]) \in GraphEdges
              /\ ref[1] \in GraphNodeIds

----------------------------------------------------------------------------
(* C28 *)

\* Inserting an id that is in the node table leaves the table as it is,
\* whatever type and name the insertion gives; no id is in the table twice.
C28_Idempotent ==
    \A t \in Callers :
        LET nodes_map == callers[t].nodes_map
        IN  /\ \A i \in DOMAIN nodes_map :
                 \A type_override \in {None, "PAGE", "NAVIGATION_ITEM"} :
                   \A name \in {None, "Home Page (Web)"} :
                     get_or_create_node(nodes_map, nodes_map[i].id, type_override, name)
                        = nodes_map
            /\ \A i, j \in DOMAIN nodes_map :
                 nodes_map[i].id = nodes_map[j].id => i = j

\* A step of a build keeps every node of the table as it was first inserted.
C28_NodesKept ==
    \A t \in Callers :
        callers[t].pc \in {"seeding", "traversing"} =>
            /\ Len(callers'[t].nodes_map) >= Len(callers[t].nodes_map)
            /\ \A i \in DOMAIN callers[t].nodes_map :
                 callers'[t].nodes_map[i] = callers[t].nodes_map[i]

\* The node list of the cache holds no id twice.
C28_NoTwoNodes ==
    Built => \A i, j \in DOMAIN _full_graph_cache.nodes :
                _full_graph_cache.nodes[i].id = _full_graph_cache.nodes[j].id => i = j

\* C28: node insertion is idempotent and the first write wins: inserting
\* an id that is already in the node table leaves the table unchanged, the
\* node keeps the type, name and module of its first insertion, and the
\* node list never holds two nodes with the same id.
C28_FirstWriteWins == [](C28_Idempotent /\ C28_NoTwoNodes) /\ [][C28_NodesKept]_vars

\* A build has ended in which App.Z, first inserted as the home page of a
\* profile (type PAGE by override), was inserted again as the target of a
\* call of App.M, and is still of type PAGE.
C28_Witness ==
    /\ BuildDone
    /\ Edge("Navigation.Phone", "App.Z", "SHOWS") \in GraphEdges
    /\ Edge("App.M", "App.Z", "CALLS") \in GraphEdges
    /\ \E i \in DOMAIN _full_graph_cache.nodes :
         /\ _full_graph_cache.nodes[i].id = "App.Z"
         /\ _full_graph_cache.nodes[i].type = "PAGE"

----------------------------------------------------------------------------
(* C29 *)

\* C29: when the source holds two references of different types between
\* the same ordered pair of nodes, both edges are in the edge list of the
\* built graph.  Stated for the route analysis: a processed microflow that
\* names the same unit in a microflow call and in a show-page activity has
\* two edges to it.
C29_BothEdgesPresent ==
    Analyzed =>
        \A id \in _processed_elements : \A called_el, shown_el \in Resolvable(id) :
            (/\ called_el.type = "CALLS"
             /\ shown_el.type = "SHOWS"
             /\ called_el.target = shown_el.target
             /\ called_el.target # id)
            => Cardinality({i \in DOMAIN _edges :
                              _edges[i].from = id /\ _edges[i].to = called_el.target}) >= 2

----------------------------------------------------------------------------
(* C31 *)

\* C31: in every built graph both endpoints of every edge are ids of nodes
\* of the node list; the same holds for the node table and the edge list of
\* a build at every step.
C31_EndpointsAreNodes ==
    /\ \A t \in Callers : \A i \in DOMAIN callers[t].edges_list :
         /\ InNodesMap(callers[t].nodes_map, callers[t].edges_list[i].source)
         /\ InNodesMap(callers[t].nodes_map, callers[t].edges_list[i].target)
    /\ Built => \A edge \in GraphEdges :
                   edge.source \in GraphNodeIds /\ edge.target \in GraphNodeIds

\* A graph has been built with an edge into App.Z, which is no document of
\* the project, and with an edge of a microflow to itself.
C31_Witness ==
    /\ Built
    /\ Edge("App.M", "App.Z", "CALLS") \in GraphEdges
    /\ Edge("App.M", "App.M", "CALLS") \in GraphEdges

----------------------------------------------------------------------------
(* C32 *)

\* The ids of the nodes of a graph a query returned.
IdsOf(graph) == {graph.nodes[i].id : i \in DOMAIN graph.nodes}

\* C32: after the build the adjacency maps are exactly the edge relation:
\* for all node ids s and t, t occurs in _adj[s] iff the edge list has an
\* edge from s to t, iff s occurs in _rev_adj[t]; and so, for x # y, x is
\* returned by find_common_upstream([y]) exactly when y is returned by
\* find_common_downstream([x]).
C32_AdjacencyIsEdgeRelation ==
    BuildDone =>
        /\ \A s, t \in GraphNodeIds :
             /\ (t \in set(_adj[s])) = (\E edge \in GraphEdges :
                                           edge.source = s /\ edge.target = t)
             /\ (t \in set(_adj[s])) = (s \in set(_rev_adj[t]))
        /\ \A x, y \in GraphNodeIds :
             x # y => ((x \in IdsOf(find_common_upstream(<<y>>)))
                        = (y \in IdsOf(find_common_downstream(<<x>>))))

\* A build has ended on a graph with the cycle App.P -> App.M -> App.P:
\* each of the two is upstream and downstream of the other.
C32_Witness ==
    /\ BuildDone
    /\ Edge("App.P", "App.M", "CALLS") \in GraphEdges
    /\ Edge("App.M", "App.P", "SHOWS") \in GraphEdges
    /\ "App.M" \in set(_adj["App.P"])
    /\ "App.M" \in set(_rev_adj["App.P"])
    /\ "App.P" \in IdsOf(find_common_upstream(<<"App.M">>))
    /\ "App.M" \in IdsOf(find_common_downstream(<<"App.P">>))

----------------------------------------------------------------------------
(* C33 *)

\* C33: every node of the built graph is a navigation node made for a
\* profile with a home page, or is reached along forward edges from such a
\* node; and every document reachable from a home page through the non-null
\* references of pages and microflows is a node of the graph.
C33_NodesAreTheReachable ==
    (Built /\ builds = 1) =>
        /\ NavigationIds \subseteq GraphNodeIds
        /\ \A i \in DOMAIN _full_graph_cache.nodes :
             (_full_graph_cache.nodes[i].id \in NavigationIds)
                = (_full_graph_cache.nodes[i].type = "NAVIGATION_ITEM")
        /\ \A id \in GraphNodeIds \ NavigationIds :
             \E nav_id \in NavigationIds : id \in Descendants(nav_id)
        /\ \A name \in Reached \cap DOMAIN root.units : name \in GraphNodeIds

\* A graph has been built in which App.Q is three edges away from the
\* navigation node: home page App.P calls App.M, which calls App.Q and the
\* missing App.Z.
C33_Witness ==
    /\ Built
    /\ NavigationIds = {"Navigation.Web"}
    /\ HasEdge("Navigation.Web", "App.P")
    /\ HasEdge("App.P", "App.M")
    /\ HasEdge("App.M", "App.Q")
    /\ HasEdge("App.M", "App.Z")
    /\ {"App.Q", "App.Z"} \subseteq GraphNodeIds

----------------------------------------------------------------------------
(* C34 *)

\* C34: in every reachable state, also while another thread is in the
\* middle of the build, a query that has found the cache set (it is past
\* _build_graph_if_needed, in the body of its method) finds the node index
\* and both adjacency maps set, and they are the ones of that cache.
C34_CacheWithItsTables ==
    \A t \in Callers :
        callers[t].pc = "body" =>
            /\ Built
            /\ _nodes_by_id # Unset /\ _adj # Unset /\ _rev_adj # Unset
            /\ _nodes_by_id = NodesById(_full_graph_cache)
            /\ _adj = Adjacency(_full_graph_cache)
            /\ _rev_adj = ReverseAdjacency(_full_graph_cache)

----------------------------------------------------------------------------
(* C35 *)

\* C35: for every node X of the graph, find_paths(X, X) returns exactly one
\* path, made of the single node X, whether or not X lies on a cycle.
C35_PathToItself ==
    (/\ query.op = "find_paths"
     /\ query.args[1] = query.args[2]
     /\ query.args[1] \in GraphNodeIds)
    => query.result = << <<Node(query.args[1])>> >>

\* find_paths(B, B) has returned the single node B on a graph in which B
\* lies on the cycle B -> D -> B.
C35_Witness ==
    /\ query.op = "find_paths"
    /\ query.args = <<"B", "B">>
    /\ HasEdge("B", "D") /\ HasEdge("D", "B")
    /\ query.result = << <<Node("B")>> >>

----------------------------------------------------------------------------
(* C36 *)

\* A step in which a query returns leaves the cache and the tables alone.
C36_QueryStep ==
    query'.n # query.n =>
        UNCHANGED <<_full_graph_cache, _nodes_by_id, _adj, _rev_adj>>

\* Once a query has returned, the tables are the ones the build derives
\* from the cached graph.
C36_AsBuilt ==
    query.n >= 1 =>
        /\ Built
        /\ _nodes_by_id = NodesById(_full_graph_cache)
        /\ _adj = Adjacency(_full_graph_cache)
        /\ _rev_adj = ReverseAdjacency(_full_graph_cache)

\* C36: no query changes the cached graph: after any sequence of
\* find_paths, find_common_upstream, find_common_downstream and
\* get_subgraph calls the node list, the edge list and both adjacency maps
\* are the same as right after the build.
C36_QueriesChangeNothing == []C36_AsBuilt /\ [][C36_QueryStep]_vars

\* The last of MaxCalls queries in sequence was a find_common_downstream
\* that returned nodes of a graph with edges.
C36_Witness ==
    /\ query.n = MaxCalls
    /\ query.op = "find_common_downstream"
    /\ query.result.nodes # <<>>
    /\ _full_graph_cache.edges # <<>>
    /\ _adj = Adjacency(_full_graph_cache)

----------------------------------------------------------------------------
(* C37 *)

\* C37: if an RPC request names a registered method and carries no reqId,
\* dispatch runs the handler's execute once, sends neither RPC_SUCCESS nor
\* RPC_ERROR (the calling thread sends nothing but what execute itself
\* broadcasts) and returns without raising.
C37_RpcWithoutReqId ==
    (RegisteredRpc /\ main.request.reqId = Absent) =>
        /\ RpcTerminals = {}
        /\ \A i \in SentByDispatch :
             /\ sent[i].msg.type = "EVENT_BROADCAST"
             /\ main.handler = "system:triggerBroadcast"
        /\ main.pc \in {"handle_rpc", "execute", "rpc_success", "except", "returned"}
        /\ main.ncalls <= 1
        /\ main.pc \in {"rpc_success", "returned"} => main.ncalls = 1
        /\ main.pc = "except" =>
             \/ HandlerRaised
             \/ main.ncalls = 1 /\ main.exc = KeyError("reqId")

\* dispatch has returned from an RPC without reqId whose handler returned
\* its result: the KeyError of request["reqId"] was caught and nothing sent.
C37_Witness ==
    /\ main.pc = "returned"
    /\ RegisteredRpc
    /\ main.request.reqId = Absent
    /\ main.ncalls = 1
    /\ main.result = "info"
    /\ main.exc = KeyError("reqId")
    /\ SentByDispatch = {}

----------------------------------------------------------------------------
(* C38 *)

\* The jobs launched for a JOB_START request without reqId.
JobsWithoutReqId == {t \in DOMAIN threads : threads[t].request.reqId = Absent}

\* For a job launched without reqId no JOB_STARTED is ever sent; the
\* KeyError of request["reqId"] is raised with the worker already started,
\* is caught, and no error envelope is sent for it; a job that has ended
\* has sent the JOB_PROGRESS of every report and one terminal envelope.
C38_Launched ==
    /\ \A t \in JobsWithoutReqId :
         LET w == threads[t]
         IN  /\ JobEnvelopes(w.job_id, {"JOB_STARTED"}) = {}
             /\ Cardinality(JobEnvelopes(w.job_id, {"JOB_PROGRESS"})) = w.step
             /\ w.pc = "done" => Cardinality(JobTerminals(w.job_id)) = 1
             /\ main.job_id = w.job_id =>
                  /\ main.pc \in {"job_started", "except", "returned"}
                  /\ SentByDispatch = {}
                  /\ main.pc # "job_started" => main.exc = KeyError("reqId")
    /\ (/\ main.request.type = "JOB_START"
        /\ main.request.method \in JobRegistry
        /\ main.request.reqId = Absent
        /\ main.pc \in {"except", "returned"})
       => \E t \in JobsWithoutReqId : threads[t].job_id = main.job_id

\* C38: a JOB_START request that names a registered method and carries no
\* reqId has its worker thread launched before the missing reqId is
\* noticed: the job runs and sends its JOB_PROGRESS and terminal envelopes
\* although no JOB_STARTED and no error envelope is ever sent for it.
C38_JobWithoutReqIdRuns ==
    /\ []C38_Launched
    /\ \A t \in 1..MaxDispatch :
         (t \in JobsWithoutReqId) ~> (t \in JobsWithoutReqId /\ threads[t].pc = "done")

\* A job launched without reqId has reported progress and ended with
\* JOB_SUCCESS; dispatch has returned from its KeyError.
C38_Witness ==
    /\ main.pc = "returned"
    /\ main.exc = KeyError("reqId")
    /\ \E t \in JobsWithoutReqId :
         /\ threads[t].job_id = main.job_id
         /\ threads[t].pc = "done"
         /\ threads[t].outcome = "returned"
         /\ JobEnvelopes(threads[t].job_id, {"JOB_PROGRESS"}) # {}
         /\ JobEnvelopes(threads[t].job_id, {"JOB_SUCCESS"}) # {}
         /\ JobEnvelopes(threads[t].job_id, {"JOB_STARTED"}) = {}


----------------------------------------------------------------------------
(* C39 *)

\* The current call of dispatch is for a session request whose channel has
\* a registered handler.
SessionCall ==
    /\ main.request.type \in {"SESSION_CONNECT", "SESSION_DISCONNECT"}
    /\ main.request.channel \in SessionRegistry
    /\ main.request.sessionId # Absent

SessionErrors == {i \in SentByDispatch : sent[i].msg.type = "RPC_ERROR"}

----------------------------------------------------------------------------
(* C40 *)

\* C40: handle_request never raises: every call returns one response whose
\* requestId is the request's id and which holds exactly one of the keys
\* result and error, error when the method is unknown or raised, result
\* otherwise.
C40_AlwaysOneResponse ==
    main.pc # "idle" =>
        /\ main.pc = "returned"
        /\ main.result.requestId = Get(main.request, "id")
        /\ Cardinality(main.result.keys \cap {"result", "error"}) = 1
        /\ "error" \in main.result.keys <=>
             \/ Get(main.request, "method") \notin _methods
             \/ main.exc # NoException

\* The same for the requests whose method is a string or missing.
C40_OneResponseForStringMethods ==
    main.request.method # ListMethod => C40_AlwaysOneResponse

====
